---- MODULE Spec2Model ----
(***************************************************************************)
(* A model of ffutop/modbus-gateway: the RTU codec, the downstream         *)
(* clients' exchange lock, the upstream connection handlers with the       *)
(* gateway dispatcher, the route construction of main with the slave-id    *)
(* parser, the persistence backends of the local slave, the MBAP framing,  *)
(* the DataModel, the shutdown of a gateway, the request scanner of the    *)
(* RTU server, the TCP server's reads, the timing of the RTU master and    *)
(* the response scanner.  Each part has its own specification over the     *)
(* shared variables; the parts a specification does not drive stay at      *)
(* their idle values.                                                      *)
(***************************************************************************)
EXTENDS Integers, Sequences, FiniteSets, TLC

VARIABLES
    cpc,        \* codec driver: "idle", "start", "encoded", "damaged", "refused",
                \* "decoded", "decodedDamaged"
    cin,        \* the ADU handed to Encode: [slave, fc, data]
    cframe,     \* the bytes on the wire (a sequence of bytes)
    cout,       \* the result of Decode: [ok, slave, fc, data]
    spc,        \* downstream clients: where each calling goroutine is in Send
    sclient,    \* the client each goroutine calls
    smu,        \* per client: the goroutine holding its mutex ({} when free)
    sconn,      \* per client: whether its connection (or port) is open
    swire,      \* per client: the goroutines with a request on the wire
    sres,       \* the result of each goroutine's last Send
    sctx,       \* whether the context of each goroutine's Send is done
    ukind,      \* gateway: the kind of the upstream the master is connected to
    gdkind,     \* the kind of the downstream client the routes lead to
    groutes,    \* Gateway.Routes: the unit-ids that have a route
    gdefault,   \* whether Gateway.DefaultRoute is set
    gopen,      \* whether the upstream connection is open
    gsent,      \* the number of frames the master has sent
    gframe,     \* the frame the upstream server read last
    greqs,      \* the requests decoded, in order, each with its outcome
    gout,       \* the frames written to the master, in order
    rcfg,       \* main: gwCfg.Downstreams, each [type, slaveIds]
    rpc,        \* main: "idle", "start", "routing", "done", "skipped", "fatal"
    ri,         \* the number of downstream entries the routing loop has handled
    routes,     \* the routes map: slave-id -> index of its downstream
    defaultRoute, \* the index of the default downstream, {} when nil
    mdata,      \* local slave: the bytes behind the DataModel (byte offset -> byte,
                \* the zero bytes left out)
    mendian,    \* the host's byte order, "little" or "big"
    lreq,       \* the request PDU the local slave processed last
    lresp,      \* its response: [fc, data, hooks], hooks being the on-write
                \* invocations the handler made before it returned
    sbackend,   \* persistence: "file", "mmap", or "none" (memory storage)
    fdata,      \* the bytes of the backing file as the operating system holds them
    sproc,      \* "running" or "stopped"
    srestarts,  \* how many times a fresh process has loaded the backing file
    hukind,     \* shutdown: the kind of the gateway's upstream server
    hdkind,     \* the kind of its downstream client
    hctx,       \* whether the gateway's context is cancelled
    hstart,     \* where Gateway.Start is: "serving", "closedUpstreams",
                \* "closedDownstreams", "returned"
    hlisten,    \* whether the upstream server's listener is open
    hserver,    \* the upstream server's Start: "accepting" or "returned"
    hconn,      \* per upstream connection: "none", or where its handler is:
                \* "top", "reading", "dispatching", "locked", "closed"
    hdown,      \* whether the downstream client's transport is open
    hmu,        \* the connection whose handler holds the downstream's mutex
    xwire,      \* RTU server: the bytes the master has sent that are still unread
    xbuf,       \* buf[:current] of scanLoop
    xpc,        \* where scanLoop is: "off", "top", "header", "length", "body",
                \* "decode", "panic"
    xhdr,       \* the header the last length calculation was given
    xexp,       \* the length it returned, 0 for its error
    xjobs,      \* the dispatch goroutines that have not written their response
    xwrote,     \* where scanLoop was when the last response was written:
                \* "none", "between" frames, or "mid" frame
    tsent,      \* TCP server: the bytes a master has written to its connection
    twire,      \* those of them handleConnection has not read yet
    tdisp,      \* the requests handed to the handler, in order
    topen,      \* whether the connection is open
    mnow,       \* RTU master: the time, in seconds
    mpc,        \* "off", or where Send is: "idle" (no Send), "exchange" (the
                \* mutex held, the request written, the response awaited)
    mport,      \* whether the serial port is open (mb.port # nil)
    mlast,      \* lastActivity
    mtimer,     \* when closeTimer fires, -1 when it is nil or has fired
    mfired,     \* whether a closeIdle called by the timer has yet to run
    mend,       \* when the last exchange ended, -1 before the first
    mquiet,     \* whether the bus has been silent for the inter-frame delay
    mwrote,     \* how the last request was written: "none", "quiet" (after
                \* the inter-frame silence) or "early"
    mclosed,    \* the seconds between the last exchange's end and the last
                \* close by closeIdle, -1 when it has closed nothing
    qexp,       \* response scanner: the slave-id and function code expected
    qframe,     \* the well-formed response frame the slave sends, <<>> when
                \* it sends none
    qin,        \* the bytes the reader has yet to deliver
    qpc,        \* where ReadResponse is: "off", "top" of its loop, "read"
                \* (inside io.ReadAtLeast), "done"
    qscan,      \* its locals: [state, data, toRead, crcCount], data being data[:n]
    qres,       \* what it returned: "none", "frame", "timeout", "readError",
                \* "invalidLength", "notHandled"
    qnow,       \* the time since the call, in ticks
    qreadAt,    \* when the read in progress began
    sprom,      \* the on-write that returned last: its arguments, the values the
                \* model held over its range, whether its sync succeeded, and
                \* whether the range has been left unwritten since
    bcfg,       \* local downstream: its configured persistence, [type, pathOk]
    kregs,      \* DataModel under concurrent calls: the bytes behind the model
    kmu,        \* its RWMutex: [writer, readers]
    kpc,        \* per goroutine: "off", "idle", "lock", "loop", "unlock", "done", "failed"
    kop,        \* the call each goroutine makes: [kind, address, quantity, data]
    ki,         \* the loop index of each call
    kres,       \* the result bytes each read has gathered
    ksnap,      \* the bytes behind the model when each call took the lock
    klog,       \* the goroutines that stored a register, one entry per store
    wq,         \* queue gateway: the requests in requestChan, oldest first
    wh,         \* per connection handler: "off", "reading", "waiting", "closed"
    wreq,       \* the frame each handler read last
    wgot,       \* the messages received on the response channel of that request,
                \* each [response, err]
    ww,         \* the worker: "off", "idle", "sending", "panic"
    wcur        \* the queued request the worker holds

codecVars == <<cpc, cin, cframe, cout>>
sendVars == <<spc, sclient, smu, sconn, swire, sres, sctx>>
gwVars == <<ukind, gdkind, groutes, gdefault, gopen, gsent, gframe, greqs, gout>>

routeVars == <<rcfg, rpc, ri, routes, defaultRoute>>
slaveVars == <<mdata, mendian, lreq, lresp, sbackend, fdata, sproc, srestarts, sprom>>

shutVars == <<hukind, hdkind, hctx, hstart, hlisten, hserver, hconn, hdown, hmu>>

scanVars == <<xwire, xbuf, xpc, xhdr, xexp, xjobs, xwrote>>
\* the byte streams and clocks of the serial and TCP transports
streamVars == <<tsent, twire, tdisp, topen>>
masterVars == <<mnow, mpc, mport, mlast, mtimer, mfired, mend, mquiet, mwrote, mclosed>>
respVars == <<qexp, qframe, qin, qpc, qscan, qres, qnow, qreadAt>>
\* configuration of the local downstream
bootVars == <<bcfg>>
\* the DataModel under concurrent calls
lockVars == <<kregs, kmu, kpc, kop, ki, kres, ksnap, klog>>
\* the queue-based gateway
queueVars == <<wq, wh, wreq, wgot, ww, wcur>>
lateVars == <<bootVars, lockVars, queueVars>>
wireVars == <<scanVars, streamVars, masterVars, respVars, lateVars>>

vars == <<codecVars, sendVars, gwVars, routeVars, slaveVars, shutVars, wireVars>>

exceptCodec == <<sendVars, gwVars, routeVars, slaveVars, shutVars, wireVars>>
exceptSend == <<codecVars, gwVars, routeVars, slaveVars, shutVars, wireVars>>
exceptGw == <<codecVars, sendVars, routeVars, slaveVars, shutVars, wireVars>>
exceptRoute == <<codecVars, sendVars, gwVars, slaveVars, shutVars, wireVars>>
exceptSlave == <<codecVars, sendVars, gwVars, routeVars, shutVars, wireVars>>
exceptShut == <<codecVars, sendVars, gwVars, routeVars, slaveVars, wireVars>>

(***************************************************************************)
(* Bytes and 16-bit words.                                                 *)
(***************************************************************************)
Byte == 0..255

RECURSIVE XorBits(_, _, _)
XorBits(a, b, n) ==
    IF n = 0 THEN 0
    ELSE (((a % 2) + (b % 2)) % 2) + 2 * XorBits(a \div 2, b \div 2, n - 1)

Xor16(a, b) == XorBits(a, b, 16)

RECURSIVE OrBits(_, _, _)
OrBits(a, b, n) ==
    IF n = 0 THEN 0
    ELSE (IF a % 2 = 1 \/ b % 2 = 1 THEN 1 ELSE 0) + 2 * OrBits(a \div 2, b \div 2, n - 1)

Or8(a, b) == OrBits(a, b, 8)

\* sequence helpers: Go's s[from:to] with 0-based half-open indices
Slice(s, from, to) == [i \in 1..(to - from) |-> s[from + i]]

(***************************************************************************)
(* CRC-16 (Modbus): polynomial 0xA001, initial value 0xFFFF, shifting      *)
(* right.  The crc package itself is not among the sources; its test       *)
(* fixes CRC({0x02, 0x07}) = 0x1241.                                       *)
(***************************************************************************)
CrcPoly == 40961
CrcInit == 65535

RECURSIVE CrcShift(_, _)
CrcShift(crc, n) ==
    IF n = 0 THEN crc
    ELSE LET nx == IF crc % 2 = 1 THEN Xor16(crc \div 2, CrcPoly) ELSE crc \div 2
         IN CrcShift(nx, n - 1)

\* CRC.PushBytes, one byte
CrcPushByte(crc, b) == CrcShift(Xor16(crc, b), 8)

\* CRC.PushBytes over a run of bytes, continuing from crc
CrcRun[crc \in 0..65535, s \in Seq(Byte)] ==
    IF s = <<>> THEN crc ELSE CrcRun[CrcPushByte(crc, Head(s)), Tail(s)]

\* Reset().PushBytes(s).Value(); long inputs are folded in runs of 16 bytes,
\* which keeps the evaluation shallow and changes no value
CrcValueOf[s \in Seq(Byte)] ==
    IF Len(s) <= 16 THEN CrcRun[CrcInit, s]
    ELSE CrcRun[CrcValueOf[SubSeq(s, 1, Len(s) - 16)],
                SubSeq(s, Len(s) - 15, Len(s))]

CrcValue(s) == CrcValueOf[s]

(***************************************************************************)
(* RTU ADU codec.                                                          *)
(***************************************************************************)
rtuMinSize == 4
rtuMaxSize == 256

NoAdu == [ok |-> FALSE, slave |-> 0, fc |-> 0, data |-> <<>>]

\* ApplicationDataUnit.Encode: <<>> stands for the error return
RtuEncodeSwapped(slave, fc, data) ==
    LET length == Len(data) + 4 IN
    IF length > rtuMaxSize THEN <<>>
    ELSE LET body == <<slave, fc>> \o data
             checksum == CrcValue(body)
         IN body \o <<checksum \div 256, checksum % 256>>

RtuEncode(slave, fc, data) ==
    LET length == Len(data) + 4 IN
    IF length > rtuMaxSize THEN <<>>
    ELSE LET body == <<slave, fc>> \o data
             checksum == CrcValue(body)
         IN body \o <<checksum % 256, checksum \div 256>>

\* Decode
RtuDecode(raw) ==
    LET length == Len(raw) IN
    IF length < rtuMinSize THEN NoAdu
    ELSE LET checksum == raw[length] * 256 + raw[length - 1] IN
         IF checksum # CrcValue(Slice(raw, 0, length - 2)) THEN NoAdu
         ELSE [ok |-> TRUE, slave |-> raw[1], fc |-> raw[2],
               data |-> Slice(raw, 2, length - 2)]

(***************************************************************************)
(* The values the downstream-client variables keep while nothing calls     *)
(* Send.                                                                   *)
(***************************************************************************)
NTasks == 2
Tasks == 1..NTasks
Clients == {"tcp", "rtu", "rtuOverTcp"}

SendIdle ==
    /\ spc = [t \in Tasks |-> "idle"]
    /\ sclient = [t \in Tasks |-> "tcp"]
    /\ smu = [c \in Clients |-> {}]
    /\ sconn = [c \in Clients |-> FALSE]
    /\ swire = [c \in Clients |-> {}]
    /\ sres = [t \in Tasks |-> "none"]
    /\ sctx = [t \in Tasks |-> FALSE]

GwIdle ==
    /\ ukind = "none"
    /\ gdkind = "none"
    /\ groutes = {}
    /\ gdefault = FALSE
    /\ gopen = FALSE
    /\ gsent = 0
    /\ gframe = <<>>
    /\ greqs = <<>>
    /\ gout = <<>>

RouteIdle ==
    /\ rcfg = <<>>
    /\ rpc = "idle"
    /\ ri = 0
    /\ routes = <<>>
    /\ defaultRoute = {}

NoPdu == [fc |-> 0, data |-> <<>>]

NoResponse == [fc |-> 0, data |-> <<>>, hooks |-> <<>>]

NoPromise ==
    [valid |-> FALSE, table |-> "none", address |-> 0, quantity |-> 0, vals |-> <<>>,
     ok |-> FALSE, gen |-> 0]

StoreIdle ==
    /\ sbackend = "none"
    /\ fdata = <<>>
    /\ sproc = "running"
    /\ srestarts = 0
    /\ sprom = NoPromise

SlaveIdle ==
    /\ mdata = <<>>
    /\ mendian = "little"
    /\ lreq = NoPdu
    /\ lresp = NoResponse
    /\ StoreIdle

MaxConns == 2
Conns == 1..MaxConns

ShutIdle ==
    /\ hukind = "none"
    /\ hdkind = "none"
    /\ hctx = FALSE
    /\ hstart = "serving"
    /\ hlisten = FALSE
    /\ hserver = "returned"
    /\ hconn = [k \in Conns |-> "none"]
    /\ hdown = FALSE
    /\ hmu = {}

ScanIdle ==
    /\ xwire = <<>>
    /\ xbuf = <<>>
    /\ xpc = "off"
    /\ xhdr = <<>>
    /\ xexp = 0
    /\ xjobs = 0
    /\ xwrote = "none"

StreamIdle ==
    /\ tsent = <<>>
    /\ twire = <<>>
    /\ tdisp = <<>>
    /\ topen = FALSE

MasterIdle ==
    /\ mnow = 0
    /\ mpc = "off"
    /\ mport = FALSE
    /\ mlast = 0
    /\ mtimer = -1
    /\ mfired = FALSE
    /\ mend = -1
    /\ mquiet = TRUE
    /\ mwrote = "none"
    /\ mclosed = -1

NoScan == [state |-> "stateSlaveID", data |-> <<>>, toRead |-> 0, crcCount |-> 0]

RespIdle ==
    /\ qexp = [slave |-> 0, fc |-> 0]
    /\ qframe = <<>>
    /\ qin = <<>>
    /\ qpc = "off"
    /\ qscan = NoScan
    /\ qres = "none"
    /\ qnow = 0
    /\ qreadAt = 0

BootIdle == bcfg = [type |-> "memory", pathOk |-> TRUE]

Workers == {1, 2, 3}

LockIdle ==
    /\ kregs = <<>>
    /\ kmu = [writer |-> 0, readers |-> {}]
    /\ kpc = [t \in Workers |-> "off"]
    /\ kop = [t \in Workers |-> [kind |-> "read", address |-> 0, quantity |-> 0, data |-> <<>>]]
    /\ ki = [t \in Workers |-> 0]
    /\ kres = [t \in Workers |-> <<>>]
    /\ ksnap = [t \in Workers |-> <<>>]
    /\ klog = <<>>

QueueConns == {1, 2}

NoQueued == [conn |-> 0, tid |-> 0, proto |-> 0, unit |-> 0, fc |-> 0, data |-> <<>>]

QueueIdle ==
    /\ wq = <<>>
    /\ wh = [c \in QueueConns |-> "off"]
    /\ wreq = [c \in QueueConns |-> <<>>]
    /\ wgot = [c \in QueueConns |-> <<>>]
    /\ ww = "off"
    /\ wcur = NoQueued

LateIdle == BootIdle /\ LockIdle /\ QueueIdle

exceptLate == <<codecVars, sendVars, gwVars, routeVars, slaveVars, shutVars,
                scanVars, streamVars, masterVars, respVars>>
exceptLock == <<exceptLate, bootVars, queueVars>>
exceptQueue == <<exceptLate, bootVars, lockVars>>

WireIdle == ScanIdle /\ StreamIdle /\ MasterIdle /\ RespIdle /\ LateIdle

exceptWire == <<codecVars, sendVars, gwVars, routeVars, slaveVars, shutVars>>
exceptScan == <<exceptWire, streamVars, masterVars, respVars, lateVars>>
exceptStream == <<exceptWire, scanVars, masterVars, respVars, lateVars>>
exceptMaster == <<exceptWire, scanVars, streamVars, respVars, lateVars>>
exceptResp == <<exceptWire, scanVars, streamVars, masterVars, lateVars>>

(***************************************************************************)
(* Codec driver: an ADU is encoded, the frame may be damaged on the wire   *)
(* (one byte replaced, or the last byte lost), and the receiver decodes    *)
(* what arrives.                                                           *)
(***************************************************************************)
MaxDataLen == 2

ByteSamples == {0, 1, 128, 255}
SlaveSamples == {0, 1, 255}
FcSamples == {3, 16, 131}

SeqsUpTo(S, n) == UNION {[1..k -> S] : k \in 0..n}

\* short PDUs of every content, and long ones around the 252-byte limit
DataSamples ==
    SeqsUpTo(ByteSamples, MaxDataLen)
        \cup {[i \in 1..n |-> b] : n \in {rtuMaxSize - 5, rtuMaxSize - 4, rtuMaxSize - 3},
                                   b \in {0, 255}}

CodecIdle ==
    /\ cpc = "idle"
    /\ cin = [slave |-> 0, fc |-> 0, data |-> <<>>]
    /\ cframe = <<>>
    /\ cout = NoAdu

CodecStart ==
    /\ cpc = "start"
    /\ cin \in [slave : SlaveSamples, fc : FcSamples, data : DataSamples]
    /\ cframe = <<>>
    /\ cout = NoAdu

CodecEncode ==
    /\ cpc = "start"
    /\ cframe' = RtuEncode(cin.slave, cin.fc, cin.data)
    /\ cpc' = IF cframe' = <<>> THEN "refused" ELSE "encoded"
    /\ UNCHANGED <<cin, cout, exceptCodec>>

\* the places of a frame the wire may damage: its head and its CRC
DamageAt(f) == {i \in 1..Len(f) : i <= 3 \/ i >= Len(f) - 1}

CodecDamage ==
    /\ cpc = "encoded"
    /\ \E i \in DamageAt(cframe) :
         \E b \in (ByteSamples \cup {(cframe[i] + 1) % 256}) \ {cframe[i]} :
            cframe' = [cframe EXCEPT ![i] = b]
    /\ cpc' = "damaged"
    /\ UNCHANGED <<cin, cout, exceptCodec>>

CodecTruncate ==
    /\ cpc = "encoded"
    /\ cframe' = SubSeq(cframe, 1, Len(cframe) - 1)
    /\ cpc' = "damaged"
    /\ UNCHANGED <<cin, cout, exceptCodec>>

CodecDecode ==
    /\ cpc \in {"encoded", "damaged"}
    /\ cout' = RtuDecode(cframe)
    /\ cpc' = IF cpc = "encoded" THEN "decoded" ELSE "decodedDamaged"
    /\ UNCHANGED <<cin, cframe, exceptCodec>>

CodecNext == CodecEncode \/ CodecDamage \/ CodecTruncate \/ CodecDecode

CodecInit == CodecStart /\ SendIdle /\ GwIdle /\ RouteIdle /\ SlaveIdle /\ ShutIdle /\ WireIdle

SpecCodec == CodecInit /\ [][CodecNext]_vars

\* the CRC a frame carries in its last two bytes, low byte first
CarriedCrc(f) == f[Len(f) - 1] + 256 * f[Len(f)]

\* C10: RTU decode inverts RTU encode for every slave-id and every PDU of at
\* most 252 data bytes (encode refuses nothing shorter), and decode rejects
\* every frame whose last two bytes, low byte first, are not the CRC-16 of
\* the bytes before them.
C10_RtuRoundTrip ==
    /\ cpc = "refused" => Len(cin.data) > 252
    /\ cpc = "decoded" =>
          cout = [ok |-> TRUE, slave |-> cin.slave, fc |-> cin.fc, data |-> cin.data]
    /\ (cpc \in {"decoded", "decodedDamaged"} /\ cout.ok) =>
          /\ Len(cframe) >= 4
          /\ CarriedCrc(cframe) = CrcValue(SubSeq(cframe, 1, Len(cframe) - 2))

\* a PDU of exactly 252 data bytes went through encode and decode
C10_Witness ==
    /\ cpc = "decoded"
    /\ Len(cin.data) = 252
    /\ cout.ok

(***************************************************************************)
(* Downstream clients.  Send of the TCP client, of the RTU master and of   *)
(* the RTU-over-TCP client: lock, connect, write the request, read the     *)
(* response, unlock (deferred).  Several goroutines call Send on the       *)
(* clients at once.                                                        *)
(***************************************************************************)
SendInit == SendIdle /\ CodecIdle /\ GwIdle /\ RouteIdle /\ SlaveIdle /\ ShutIdle /\ WireIdle

\* mu.Lock() returns only while nobody holds the mutex
CanLockAlways(c) == TRUE

\* one mutex for all clients
CanLockGlobal(c) == \A c2 \in Clients : smu[c2] = {}

CanLock(c) == smu[c] = {}

\* a goroutine enters Send and blocks on mu.Lock()
SendCall(t, c) ==
    /\ spc[t] = "idle"
    /\ spc' = [spc EXCEPT ![t] = "waitLock"]
    /\ sclient' = [sclient EXCEPT ![t] = c]
    /\ sres' = [sres EXCEPT ![t] = "none"]
    /\ sctx' = [sctx EXCEPT ![t] = FALSE]
    /\ UNCHANGED <<smu, sconn, swire, exceptSend>>

\* the context handed to Send ends (the dispatcher's timeout, or the
\* gateway's cancellation) before the exchange has come to its result
CtxDone(t) ==
    /\ spc[t] \in {"waitLock", "locked", "connected", "written"}
    /\ ~sctx[t]
    /\ sctx' = [sctx EXCEPT ![t] = TRUE]
    /\ UNCHANGED <<spc, sclient, smu, sconn, swire, sres, exceptSend>>

SendLock(t) ==
    /\ spc[t] = "waitLock"
    /\ CanLock(sclient[t])
    /\ smu' = [smu EXCEPT ![sclient[t]] = {t}]
    /\ spc' = [spc EXCEPT ![t] = "locked"]
    /\ UNCHANGED <<sclient, sconn, swire, sres, sctx, exceptSend>>

\* connect(): nothing to do on an open connection; a dial may fail.  The
\* serial port's connect(ctx) returns ctx.Err() when the context is done.
SendConnect(t) ==
    /\ spc[t] = "locked"
    /\ \E dialOk \in BOOLEAN :
         IF sclient[t] = "rtu" /\ sctx[t]
         THEN /\ sconn' = sconn
              /\ spc' = [spc EXCEPT ![t] = "return"]
              /\ sres' = [sres EXCEPT ![t] = "ctxDone"]
         ELSE IF sconn[sclient[t]] \/ dialOk
         THEN /\ sconn' = [sconn EXCEPT ![sclient[t]] = TRUE]
              /\ spc' = [spc EXCEPT ![t] = "connected"]
              /\ sres' = sres
         ELSE /\ sconn' = sconn
              /\ spc' = [spc EXCEPT ![t] = "return"]
              /\ sres' = [sres EXCEPT ![t] = "connectError"]
    /\ UNCHANGED <<sclient, smu, swire, sctx, exceptSend>>

\* the two TCP-borne clients close their connection on an I/O error; the
\* serial master keeps its port
ClosesOnIoError(c) == c \in {"tcp", "rtuOverTcp"}

SendWrite(t) ==
    /\ spc[t] = "connected"
    /\ \E writeOk \in BOOLEAN :
         IF writeOk
         THEN /\ swire' = [swire EXCEPT ![sclient[t]] = @ \cup {t}]
              /\ spc' = [spc EXCEPT ![t] = "written"]
              /\ UNCHANGED <<sconn, sres>>
         ELSE /\ sconn' = [sconn EXCEPT ![sclient[t]] = ~ClosesOnIoError(sclient[t])]
              /\ spc' = [spc EXCEPT ![t] = "return"]
              /\ sres' = [sres EXCEPT ![t] = "writeError"]
              /\ swire' = swire
    /\ UNCHANGED <<sclient, smu, sctx, exceptSend>>

\* the read of the response: a response, a read failure or timeout, a
\* response that does not decode or verify, or (serial master only) the
\* caller's context ending during the inter-frame delay
ReadOutcomes(c) ==
    {"ok", "readError", "badResponse"} \cup (IF c = "rtu" THEN {"ctxDone"} ELSE {})

SendRead(t) ==
    /\ spc[t] = "written"
    /\ \E r \in ReadOutcomes(sclient[t]) :
         /\ r = "ctxDone" => sctx[t]
         /\ sres' = [sres EXCEPT ![t] = r]
         /\ sconn' = [sconn EXCEPT ![sclient[t]] =
                         ~(r = "readError" /\ ClosesOnIoError(sclient[t]))]
    /\ swire' = [swire EXCEPT ![sclient[t]] = @ \ {t}]
    /\ spc' = [spc EXCEPT ![t] = "return"]
    /\ UNCHANGED <<sclient, smu, sctx, exceptSend>>

\* defer mb.mu.Unlock()
SendUnlock(t) ==
    /\ spc[t] = "return"
    /\ smu' = [smu EXCEPT ![sclient[t]] = {}]
    /\ spc' = [spc EXCEPT ![t] = "idle"]
    /\ UNCHANGED <<sclient, sconn, swire, sres, sctx, exceptSend>>

\* Close() of the TCP-borne clients and closeIdle() of the serial port take
\* the same mutex for the whole of their body
ClientClose(c) ==
    /\ CanLock(c)
    /\ sconn[c]
    /\ sconn' = [sconn EXCEPT ![c] = FALSE]
    /\ UNCHANGED <<spc, sclient, smu, swire, sres, sctx, exceptSend>>

SendNext ==
    \/ \E t \in Tasks, c \in Clients : SendCall(t, c)
    \/ \E t \in Tasks : CtxDone(t)
    \/ \E t \in Tasks : SendLock(t)
    \/ \E t \in Tasks : SendConnect(t)
    \/ \E t \in Tasks : SendWrite(t)
    \/ \E t \in Tasks : SendRead(t)
    \/ \E t \in Tasks : SendUnlock(t)
    \/ \E c \in Clients : ClientClose(c)

SpecSend == SendInit /\ [][SendNext]_vars

\* the goroutines between Lock and Unlock of Send on client c
InExchange(c) ==
    {t \in Tasks : sclient[t] = c /\ spc[t] \in {"locked", "connected", "written", "return"}}

\* C1: concurrent Sends on one downstream client are strictly serialized: at
\* most one goroutine is between Lock and Unlock, it holds the mutex, only its
\* request is on the wire, and the connection it wrote to stays open until it
\* has read.
C1_SendSerialized ==
    \A c \in Clients :
        /\ Cardinality(InExchange(c)) <= 1
        /\ \A t \in InExchange(c) : smu[c] = {t}
        /\ swire[c] \subseteq InExchange(c)
        /\ swire[c] # {} => sconn[c]

\* two goroutines call Send on the same client; one has its request on the
\* wire while the other waits for the mutex
C1_Witness ==
    \E c \in Clients : \E t1, t2 \in Tasks :
        /\ t1 # t2
        /\ sclient[t1] = c /\ sclient[t2] = c
        /\ t1 \in swire[c]
        /\ spc[t2] = "waitLock"

\* C16: a dispatch blocked on downstream A never delays a concurrent dispatch
\* routed to a different downstream B: a goroutine waiting for B's mutex can
\* take it whenever no other goroutine is in an exchange on B, whatever is
\* pending on the other clients.
C16_OtherDownstreamNotDelayed ==
    \A t \in Tasks :
        (spc[t] = "waitLock" /\ InExchange(sclient[t]) = {}) => CanLock(sclient[t])

\* one goroutine has its request on the wire of A, still unanswered, while
\* another has an answered exchange on a different client B behind it
C16_Witness ==
    \E t1, t2 \in Tasks :
        /\ sclient[t1] # sclient[t2]
        /\ t1 \in swire[sclient[t1]]
        /\ spc[t2] = "return"
        /\ sres[t2] = "ok"

\* C17: a dispatch whose context is cancelled or times out while it holds, or
\* waits for, a downstream's lock returns an error to its caller and leaves
\* the lock released: no mutex is held by a goroutine outside its exchange.
C17_CancelledReturnsErrorLockFree ==
    /\ \A c \in Clients : smu[c] \subseteq InExchange(c)
    /\ \A t \in Tasks : (spc[t] = "return" /\ sctx[t]) => sres[t] # "ok"

\* C20: after a Send fails with a dial, read or write I/O error the client
\* holds no open transport, and a request is only ever transmitted on an open
\* transport.
C20_IoErrorClosesTransport ==
    /\ \A t \in Tasks :
          (spc[t] = "return" /\ sres[t] \in {"connectError", "writeError", "readError"})
              => ~sconn[sclient[t]]
    /\ \A c \in Clients : swire[c] # {} => sconn[c]

(***************************************************************************)
(* Modbus TCP ADU codec (MBAP header).                                     *)
(***************************************************************************)
tcpMinSize == 8
tcpMaxSize == 260

NoTcpAdu ==
    [ok |-> FALSE, tid |-> 0, proto |-> 0, length |-> 0, unit |-> 0, fc |-> 0, data |-> <<>>]

\* Decode
TcpDecode(raw) ==
    IF Len(raw) < tcpMinSize THEN NoTcpAdu
    ELSE [ok |-> TRUE,
          tid |-> raw[1] * 256 + raw[2],
          proto |-> raw[3] * 256 + raw[4],
          length |-> raw[5] * 256 + raw[6],
          unit |-> raw[7],
          fc |-> raw[8],
          data |-> Slice(raw, 8, Len(raw))]

\* an encoder that writes the 16-bit header fields low byte first
TcpEncodeLowFirst(tid, proto, length, unit, fc, data) ==
    IF Len(data) + 8 > tcpMaxSize THEN <<>>
    ELSE <<tid % 256, (tid \div 256) % 256,
           proto % 256, (proto \div 256) % 256,
           length % 256, (length \div 256) % 256,
           unit, fc>> \o data

\* ApplicationDataUnit.Encode: <<>> stands for the error return
TcpEncode(tid, proto, length, unit, fc, data) ==
    IF Len(data) + 8 > tcpMaxSize THEN <<>>
    ELSE <<(tid \div 256) % 256, tid % 256,
           (proto \div 256) % 256, proto % 256,
           (length \div 256) % 256, length % 256,
           unit, fc>> \o data

\* a calculation that takes the byte count from index 5
CalculateRequestLengthIndex5(funcCode, header) ==
    IF funcCode \in {1, 2, 3, 4, 5, 6} THEN 8
    ELSE IF funcCode \in {15, 16}
         THEN IF Len(header) < 7 THEN 0 ELSE 7 + header[6] + 2
         ELSE 0

\* CalculateRequestLength: 0 stands for the error return
CalculateRequestLength(funcCode, header) ==
    IF funcCode \in {1, 2, 3, 4, 5, 6} THEN 8
    ELSE IF funcCode \in {15, 16}
         THEN IF Len(header) < 7 THEN 0 ELSE 7 + header[7] + 2
         ELSE 0

(***************************************************************************)
(* The gateway: one upstream connection served by the upstream server's    *)
(* loop, Gateway.handleRequest as its handler, and the downstream client   *)
(* the route leads to.  Times are in milliseconds.                         *)
(***************************************************************************)
MaxReqs == 2

safetyTimeout == 2000
tcpTimeout == 10000
defaultSerialTimeout == 500

ExceptionCodeServerDeviceFailure == 4
ExceptionCodeGatewayTargetDeviceFailedToRespond == 11

Kinds == {"tcp", "rtu", "rtuOverTcp"}
Units == {1, 2}

\* what the downstream side does with one Send: wait is the time the caller
\* spends waiting for the client's mutex, act what happens next, delay the
\* time the slave takes to answer (or to fail)
Behaviours ==
    [wait : {0, 2500}, act : {"dialFail", "writeError"}, delay : {0}]
        \cup [wait : {0, 2500}, act : {"readError", "badResponse"}, delay : {100}]
        \cup [wait : {0, 2500}, act : {"answer"}, delay : {100, 3000}]
        \cup [wait : {0, 2500}, act : {"silent"}, delay : {0}]

NoBehaviour == [wait |-> 0, act |-> "none", delay |-> 0]

\* the result of target.Send(ctx, ...): err is "" on success; deadline tells
\* whether errors.Is(err, context.DeadlineExceeded); took is the time from
\* the dispatch to the return of Send
SendResult(dk, b) ==
    IF b.act \in {"dialFail", "writeError"}
    THEN [err |-> b.act, deadline |-> FALSE, took |-> b.wait]
    ELSE IF dk = "rtu"
    THEN \* serial master: ctx is looked at once, between write and read
         IF b.wait >= safetyTimeout
         THEN [err |-> "ctxDeadline", deadline |-> TRUE, took |-> b.wait]
         ELSE IF b.act = "silent" \/ b.delay >= defaultSerialTimeout
         THEN [err |-> "requestTimedOut", deadline |-> FALSE,
               took |-> b.wait + defaultSerialTimeout]
         ELSE [err |-> IF b.act = "answer" THEN "" ELSE b.act, deadline |-> FALSE,
               took |-> b.wait + b.delay]
    ELSE \* TCP and RTU-over-TCP clients: only the connection deadline
         IF b.act = "silent" \/ b.delay >= tcpTimeout
         THEN [err |-> "ioTimeout", deadline |-> FALSE, took |-> b.wait + tcpTimeout]
         ELSE [err |-> IF b.act = "answer" THEN "" ELSE b.act, deadline |-> FALSE,
               took |-> b.wait + b.delay]

\* the frame an upstream server writes for a response PDU
ResponseFrame(uk, req, fc, data) ==
    IF uk = "tcp"
    THEN TcpEncode(req.tid, req.proto, 1 + 1 + Len(data), req.unit, fc, data)
    ELSE RtuEncode(req.unit, fc, data)

\* what an upstream server writes when the handler returns an error: the
\* RTU-over-TCP server an exception PDU, the TCP and RTU servers nothing
ErrorFrame(uk, req, deadline) ==
    IF uk = "rtuOverTcp"
    THEN ResponseFrame(uk, req, Or8(req.fc, 128),
             <<IF deadline THEN ExceptionCodeGatewayTargetDeviceFailedToRespond
                           ELSE ExceptionCodeServerDeviceFailure>>)
    ELSE <<>>

Written(frame) == IF frame = <<>> THEN <<>> ELSE <<frame>>

\* the frames a master sends: a read-holding-registers request to a unit, and
\* frames the server cannot use
ReadPdu == <<0, 0, 0, 1>>

MasterFrames(uk, n) ==
    IF uk = "tcp"
    THEN {TcpEncode(n, 0, 6, u, 3, ReadPdu) : u \in Units}
             \cup {<<0, n, 0, 0, 0, 2, 1>>, [i \in 1..(tcpMaxSize + 1) |-> 0]}
    ELSE {RtuEncode(u, 3, ReadPdu) : u \in Units}
             \cup {[RtuEncode(1, 3, ReadPdu) EXCEPT ![7] = (@ + 1) % 256],
                   RtuEncode(1, 43, ReadPdu)}

NewRequest(tid, proto, unit, fc, data) ==
    [tid |-> tid, proto |-> proto, unit |-> unit, fc |-> fc, data |-> data,
     state |-> "sending", down |-> NoBehaviour, err |-> "", took |-> 0, reply |-> <<>>]

\* Gateway.handleRequest up to the call of Send: the route lookup
HasRoute(unit) == unit \in groutes \/ gdefault

\* the handler is called with a decoded request
Dispatch(req) ==
    IF HasRoute(req.unit)
    THEN /\ greqs' = Append(greqs, req)
         /\ gout' = gout
    ELSE LET reply == ErrorFrame(ukind, req, FALSE) IN
         /\ greqs' = Append(greqs, [req EXCEPT !.state = "done", !.err = "noRoute",
                                               !.reply = reply])
         /\ gout' = gout \o Written(reply)

Pending == {k \in DOMAIN greqs : greqs[k].state = "sending"}

GwStart ==
    /\ ukind \in Kinds
    /\ gdkind \in Kinds
    /\ groutes = {1}
    /\ gdefault \in BOOLEAN
    /\ gopen = TRUE
    /\ gsent = 0
    /\ gframe = <<>>
    /\ greqs = <<>>
    /\ gout = <<>>

GwInit == GwStart /\ CodecIdle /\ SendIdle /\ RouteIdle /\ SlaveIdle /\ ShutIdle /\ WireIdle

\* one turn of Server.handleConnection / Server.scanLoop, from the read of a
\* frame to the call of the handler.  The TCP-borne servers call the handler
\* inline; the RTU server calls it in a goroutine and reads on.
GwRead(frame) ==
    /\ gopen
    /\ gsent < MaxReqs
    /\ ukind = "rtu" \/ Pending = {}
    /\ gsent' = gsent + 1
    /\ gframe' = frame
    /\ IF ukind = "tcp"
       THEN IF Len(frame) > tcpMaxSize
            THEN gopen' = FALSE /\ UNCHANGED <<greqs, gout>>
            ELSE LET adu == TcpDecode(frame) IN
                 /\ gopen' = gopen
                 /\ IF adu.ok
                    THEN Dispatch(NewRequest(adu.tid, adu.proto, adu.unit, adu.fc, adu.data))
                    ELSE UNCHANGED <<greqs, gout>>
       ELSE LET expectedLen == CalculateRequestLength(frame[2], SubSeq(frame, 1, 7)) IN
            IF expectedLen = 0
            THEN gopen' = (ukind = "rtu") /\ UNCHANGED <<greqs, gout>>
            ELSE LET adu == RtuDecode(SubSeq(frame, 1, expectedLen)) IN
                 /\ gopen' = gopen
                 /\ IF adu.ok
                    THEN Dispatch(NewRequest(0, 0, adu.slave, adu.fc, adu.data))
                    ELSE UNCHANGED <<greqs, gout>>
    /\ UNCHANGED <<ukind, gdkind, groutes, gdefault, exceptGw>>

\* Send returns to handleRequest, handleRequest to the server, and the server
\* writes its response
GwSendReturns(k, b) ==
    /\ k \in Pending
    /\ LET req == greqs[k]
           res == SendResult(gdkind, b)
           reply == IF res.err = "" THEN ResponseFrame(ukind, req, req.fc, <<2, 0, 7>>)
                    ELSE ErrorFrame(ukind, req, res.deadline)
       IN /\ greqs' = [greqs EXCEPT ![k] = [req EXCEPT !.state = "done", !.down = b,
                                                      !.err = res.err, !.took = res.took,
                                                      !.reply = reply]]
          /\ gout' = gout \o Written(reply)
    /\ UNCHANGED <<ukind, gdkind, groutes, gdefault, gopen, gsent, gframe, exceptGw>>

\* the master goes away: the read fails and the loop returns
GwDisconnect ==
    /\ gopen
    /\ ukind # "rtu"
    /\ Pending = {}
    /\ gopen' = FALSE
    /\ UNCHANGED <<ukind, gdkind, groutes, gdefault, gsent, gframe, greqs, gout, exceptGw>>

GwNext ==
    \/ \E frame \in MasterFrames(ukind, gsent + 1) : GwRead(frame)
    \/ \E k \in DOMAIN greqs, b \in Behaviours : GwSendReturns(k, b)
    \/ GwDisconnect

SpecGw == GwInit /\ [][GwNext]_vars

\* the PDU a written frame carries to the master
ReplyPdu(uk, frame) ==
    IF uk = "tcp"
    THEN LET r == TcpDecode(frame) IN [ok |-> r.ok, tid |-> r.tid, unit |-> r.unit,
                                        fc |-> r.fc, data |-> r.data]
    ELSE LET r == RtuDecode(frame) IN [ok |-> r.ok, tid |-> 0, unit |-> r.slave,
                                        fc |-> r.fc, data |-> r.data]

IsException(uk, req, code) ==
    LET r == ReplyPdu(uk, req.reply) IN
    /\ r.ok
    /\ r.fc = Or8(req.fc, 128)
    /\ r.data = <<code>>
    /\ r.tid = req.tid

Done == {k \in DOMAIN greqs : greqs[k].state = "done"}

\* C2: a request from a TCP master to a unit-id without a route, with no
\* default route, is answered on that connection by an exception response:
\* function-code request.fc|0x80, data [0x0A], the request's transaction-id.
C2_UnroutedGetsException0A ==
    ukind = "tcp" =>
        \A k \in Done : ~HasRoute(greqs[k].unit) => IsException("tcp", greqs[k], 10)

\* the downstream had not answered by the time t after the dispatch
NotAnsweredBy(b, t) ==
    \/ b.act = "silent"
    \/ b.act = "answer" /\ b.wait + b.delay > t

\* C3: when the downstream has not answered by the time the 2 s safety
\* timeout elapses, the dispatch ends at that point, whatever the downstream
\* kind, and the master receives the exception request.fc|0x80 [0x0B].
C3_SilentEndsAtSafetyTimeout ==
    \A k \in Done :
        NotAnsweredBy(greqs[k].down, safetyTimeout) =>
            /\ greqs[k].took = safetyTimeout
            /\ IsException(ukind, greqs[k], 11)

\* C4: when Send fails for a reason other than a timeout (dial failure, read
\* or write error, undecodable or mismatching response), the master receives
\* the exception request.fc|0x80 [0x04], on every upstream kind.
C4_FailureGetsException04 ==
    \A k \in Done :
        greqs[k].err \in {"dialFail", "writeError", "readError", "badResponse"} =>
            IsException(ukind, greqs[k], 4)

\* C6: on a TCP upstream connection the k-th frame written answers the k-th
\* request decoded and carries its transaction-id and unit-id.
C6_KthResponseAnswersKthRequest ==
    ukind = "tcp" =>
        \A k \in DOMAIN gout :
            /\ k \in DOMAIN greqs
            /\ TcpDecode(gout[k]).tid = greqs[k].tid
            /\ TcpDecode(gout[k]).unit = greqs[k].unit

\* a complete request frame whose last two bytes are not the CRC of the rest
BadCrc(frame) ==
    /\ Len(frame) >= 4
    /\ CalculateRequestLength(frame[2], SubSeq(frame, 1, 7)) = Len(frame)
    /\ CarriedCrc(frame) # CrcValue(SubSeq(frame, 1, Len(frame) - 2))

\* C7: when an RTU-over-TCP upstream connection delivers a request frame
\* whose CRC does not match, the server writes no reply for it and closes the
\* connection.
C7_BadCrcClosesConnection ==
    [][(ukind = "rtuOverTcp" /\ gsent' = gsent + 1 /\ BadCrc(gframe'))
          => (gout' = gout /\ ~gopen')]_vars

(***************************************************************************)
(* Route construction in main, for one gateway of the configuration.  A    *)
(* string is the sequence of its characters.                               *)
(***************************************************************************)
MaxDownstreams == 2

DigitValue ==
    [c \in {"0", "1", "2", "3", "4", "5", "6", "7", "8", "9"} |->
        CASE c = "0" -> 0 [] c = "1" -> 1 [] c = "2" -> 2 [] c = "3" -> 3
          [] c = "4" -> 4 [] c = "5" -> 5 [] c = "6" -> 6 [] c = "7" -> 7
          [] c = "8" -> 8 [] c = "9" -> 9]

\* strings.Split with a one-character separator
RECURSIVE Split(_, _)
Split(s, sep) ==
    LET at == {i \in 1..Len(s) : s[i] = sep} IN
    IF at = {} THEN <<s>>
    ELSE LET i == CHOOSE x \in at : \A y \in at : x <= y
         IN <<SubSeq(s, 1, i - 1)>> \o Split(SubSeq(s, i + 1, Len(s)), sep)

\* strings.TrimSpace
TrimSpace(s) ==
    LET solid == {i \in 1..Len(s) : s[i] \notin {" ", "\t", "\n", "\r"}} IN
    IF solid = {} THEN <<>>
    ELSE SubSeq(s, CHOOSE x \in solid : \A y \in solid : x <= y,
                   CHOOSE x \in solid : \A y \in solid : x >= y)

\* the value of a string of digits; from ten significant digits on the value
\* is only known to be at least 10^9
RECURSIVE DecimalValue(_)
DecimalValue(ds) ==
    IF ds = <<>> THEN 0
    ELSE IF ds[1] = "0" THEN DecimalValue(Tail(ds))
    ELSE IF Len(ds) > 9 THEN 10 ^ 9
    ELSE DigitValue[ds[1]] * 10 ^ (Len(ds) - 1) + DecimalValue(Tail(ds))

RECURSIVE Significant(_)
Significant(ds) ==
    IF ds # <<>> /\ ds[1] = "0" THEN Significant(Tail(ds)) ELSE Len(ds)

\* strconv.Atoi: an optional sign, then digits only, the value within int64
Atoi(s) ==
    LET signed == s # <<>> /\ s[1] \in {"+", "-"}
        ds == IF signed THEN Tail(s) ELSE s
    IN IF ds = <<>> \/ (\E i \in 1..Len(ds) : ds[i] \notin DOMAIN DigitValue)
          \/ Significant(ds) > 19
       THEN [ok |-> FALSE, val |-> 0]
       ELSE [ok |-> TRUE,
             val |-> IF signed /\ s[1] = "-" THEN 0 - DecimalValue(ds)
                     ELSE DecimalValue(ds)]

ParseError == [err |-> TRUE, ids |-> <<>>]

\* the loop of ParseSlaveIDs over the parts, ids being the ids appended so far
RECURSIVE ParseParts(_, _)
ParseParts(parts, ids) ==
    IF parts = <<>> THEN [err |-> FALSE, ids |-> ids]
    ELSE LET part == TrimSpace(Head(parts)) IN
         IF part = <<>> THEN ParseParts(Tail(parts), ids)
         ELSE IF \E i \in 1..Len(part) : part[i] = "-"
         THEN LET ranges == Split(part, "-") IN
              IF Len(ranges) # 2 THEN ParseError
              ELSE LET start == Atoi(TrimSpace(ranges[1]))
                       end == Atoi(TrimSpace(ranges[2]))
                   IN IF ~start.ok \/ ~end.ok THEN ParseError
                      ELSE IF start.val > end.val THEN ParseError
                      ELSE IF start.val < 0 \/ end.val > 255 THEN ParseError
                      ELSE ParseParts(Tail(parts),
                               ids \o [k \in 1..(end.val - start.val + 1) |->
                                          start.val + k - 1])
         ELSE LET id == Atoi(part) IN
              IF ~id.ok THEN ParseError
              ELSE IF id.val < 0 \/ id.val > 255 THEN ParseError
              ELSE ParseParts(Tail(parts), Append(ids, id.val))

\* a parser that takes the whole input for one part
ParseSlaveIDsUnsplit(input) == ParseParts(<<input>>, <<>>)

\* ParseSlaveIDs: the ids in order, repeats kept; on an error no ids
ParseSlaveIDs(input) == ParseParts(Split(input, ","), <<>>)

\* "", "1", "2", "1-2", "2-1", "1,1", "1,2", "255-256"
SlaveIdStrings ==
    {<<>>, <<"1">>, <<"2">>, <<"1", "-", "2">>, <<"2", "-", "1">>,
     <<"1", ",", "1">>, <<"1", ",", "2">>,
     <<"2", "5", "5", "-", "2", "5", "6">>}

DownstreamTypes == {"tcp", "rtu", "local"}

DownstreamConfigs == [type : DownstreamTypes, slaveIds : SlaveIdStrings]

\* createDownstream: whether it returns a downstream rather than an error
CreateDownstreamOk(cfg) == cfg.type \in {"tcp", "rtu"}

\* _, exists := routes[id]
RouteExistsNever(r, id) == FALSE

RouteExists(r, id) == id \in DOMAIN r

\* for _, id := range ids { if exists { os.Exit(1) }; routes[id] = ds }
RECURSIVE AddRoutes(_, _, _)
AddRoutes(r, ids, ds) ==
    IF ids = <<>> THEN [fatal |-> FALSE, routes |-> r]
    ELSE IF RouteExists(r, Head(ids)) THEN [fatal |-> TRUE, routes |-> r]
    ELSE LET r2 == [x \in DOMAIN r \cup {Head(ids)} |-> IF x = Head(ids) THEN ds ELSE r[x]]
         IN AddRoutes(r2, Tail(ids), ds)

RouteStart ==
    /\ rcfg \in UNION {[1..n -> DownstreamConfigs] : n \in 1..MaxDownstreams}
    /\ rpc = "start"
    /\ ri = 0
    /\ routes = <<>>
    /\ defaultRoute = {}

RouteInit == RouteStart /\ CodecIdle /\ SendIdle /\ GwIdle /\ SlaveIdle /\ ShutIdle /\ WireIdle

\* the compatibility check: one downstream and no slave_ids is the default
\* route (legacy mode); everything else is routing mode
RouteMode ==
    /\ rpc = "start"
    /\ IF Len(rcfg) = 1 /\ rcfg[1].slaveIds = <<>>
       THEN IF CreateDownstreamOk(rcfg[1])
            THEN rpc' = "done" /\ defaultRoute' = {1}
            ELSE rpc' = "skipped" /\ defaultRoute' = defaultRoute
       ELSE rpc' = "routing" /\ defaultRoute' = defaultRoute
    /\ UNCHANGED <<rcfg, ri, routes, exceptRoute>>

\* one turn of the routing-mode loop over gwCfg.Downstreams
RouteDownstream ==
    /\ rpc = "routing"
    /\ ri < Len(rcfg)
    /\ ri' = ri + 1
    /\ LET dsCfg == rcfg[ri + 1]
           parsed == ParseSlaveIDs(dsCfg.slaveIds)
           added == AddRoutes(routes, parsed.ids, ri + 1)
       IN IF ~CreateDownstreamOk(dsCfg) THEN UNCHANGED <<rpc, routes>>
          ELSE IF parsed.err THEN rpc' = "fatal" /\ routes' = routes
          ELSE IF parsed.ids = <<>> THEN UNCHANGED <<rpc, routes>>
          ELSE /\ rpc' = IF added.fatal THEN "fatal" ELSE rpc
               /\ routes' = added.routes
    /\ UNCHANGED <<rcfg, defaultRoute, exceptRoute>>

\* after the loop: a gateway without routes is skipped, else it is built
RouteFinish ==
    /\ rpc = "routing"
    /\ ri = Len(rcfg)
    /\ rpc' = IF DOMAIN routes = {} /\ defaultRoute = {} THEN "skipped" ELSE "done"
    /\ UNCHANGED <<rcfg, ri, routes, defaultRoute, exceptRoute>>

RouteNext == RouteMode \/ RouteDownstream \/ RouteFinish

SpecRoute == RouteInit /\ [][RouteNext]_vars

\* the slave-ids a downstream entry names (none when the string is malformed)
IdsOf(cfg) ==
    LET p == ParseSlaveIDs(cfg.slaveIds) IN {p.ids[k] : k \in DOMAIN p.ids}

\* some slave-id is named by two different downstream entries among D
SharedId(D) ==
    \E i, j \in D : i # j /\ IdsOf(rcfg[i]) \cap IdsOf(rcfg[j]) # {}

Created == {i \in DOMAIN rcfg : CreateDownstreamOk(rcfg[i])}

RouteLookupNoDefault(r, def, unit) ==
    IF unit \in DOMAIN r THEN {r[unit]} ELSE {}

\* Gateway.handleRequest's route lookup over the routes and default route
\* main built: the downstream a unit-id is dispatched to, {} for no route
RouteLookup(r, def, unit) ==
    IF unit \in DOMAIN r THEN {r[unit]} ELSE def

\* one downstream entry, and no slave_ids in it
Legacy == Len(rcfg) = 1 /\ rcfg[1].slaveIds = <<>>

\* C23: the gateway built from exactly one downstream without slave_ids has
\* that downstream as its default route and dispatches every unit-id 0..255
\* to it; in every other configuration there is no default route.
C23_LegacyDefaultRoute ==
    /\ (rpc = "done" /\ Legacy) =>
          /\ defaultRoute = {1}
          /\ \A unit \in 0..255 : RouteLookup(routes, defaultRoute, unit) = {1}
    /\ ~Legacy => defaultRoute = {}

\* a gateway was built from one tcp downstream without slave_ids
C23_Witness ==
    /\ rpc = "done"
    /\ Legacy
    /\ rcfg[1].type = "tcp"
    /\ RouteLookup(routes, defaultRoute, 255) = {1}

\* C34: the parser's result names each id once, however often the string
\* names it, so route construction ends fatally only for a malformed string
\* or for an id that two different created downstreams name, never for an id
\* one downstream names twice.
C34_ParserReturnsSet ==
    /\ \A i \in DOMAIN rcfg :
           LET p == ParseSlaveIDs(rcfg[i].slaveIds)
           IN ~p.err => Cardinality({p.ids[k] : k \in DOMAIN p.ids}) = Len(p.ids)
    /\ rpc = "fatal" =>
           \/ SharedId(Created)
           \/ \E i \in Created : ParseSlaveIDs(rcfg[i].slaveIds).err

(***************************************************************************)
(* The DataModel of the local slave over the byte layout of the file and   *)
(* mmap backends: coils and discrete inputs one byte each, holding and     *)
(* input registers two bytes each in the host's byte order.                *)
(***************************************************************************)
MaxAddress == 65535

sizeCoils == MaxAddress + 1
sizeDiscrete == MaxAddress + 1
sizeHolding == (MaxAddress + 1) * 2
sizeInput == (MaxAddress + 1) * 2
totalSize == sizeCoils + sizeDiscrete + sizeHolding + sizeInput

offsetCoils == 0
offsetDiscrete == offsetCoils + sizeCoils
offsetHolding == offsetDiscrete + sizeDiscrete
offsetInput == offsetHolding + sizeHolding

\* data[i] and data[i] = b
Get(d, i) == IF i \in DOMAIN d THEN d[i] ELSE 0

Put(d, i, b) ==
    [j \in (DOMAIN d \cup {i}) \ (IF b = 0 THEN {i} ELSE {}) |-> IF j = i THEN b ELSE d[j]]

\* a uint16 seen through the unsafe cast of two bytes
FromHost(e, b0, b1) == IF e = "little" THEN b0 + 256 * b1 ELSE 256 * b0 + b1

HostByte(e, v, k) ==
    IF (e = "little") = (k = 0) THEN v % 256 ELSE v \div 256

\* m.Coils[a], m.HoldingRegisters[a] of mapBytesToModel(d)
CoilAt(d, a) == Get(d, offsetCoils + a)

HoldingAt(d, e, a) ==
    FromHost(e, Get(d, offsetHolding + 2 * a), Get(d, offsetHolding + 2 * a + 1))

SetCoil(d, a, v) == Put(d, offsetCoils + a, v)

SetHolding(d, e, a, v) ==
    Put(Put(d, offsetHolding + 2 * a, HostByte(e, v, 0)),
        offsetHolding + 2 * a + 1, HostByte(e, v, 1))

BigEndian16(b0, b1) == b0 * 256 + b1

\* a check that lets a range end one place behind the table
ValidateRangeLoose(address, quantity) ==
    quantity # 0 /\ address + quantity <= MaxAddress + 2

\* validateRange: TRUE when the range is accepted
ValidateRange(address, quantity) ==
    quantity # 0 /\ address + quantity <= MaxAddress + 1

NoChange(d) == [err |-> TRUE, data |-> d]

\* a write that takes every value but 0x0000 for ON
WriteSingleCoilNonZeroOn(d, address, value) ==
    IF address > MaxAddress THEN NoChange(d)
    ELSE [err |-> FALSE, data |-> SetCoil(d, address, IF value = 0 THEN 0 ELSE 1)]

\* DataModel.WriteSingleCoil: values other than 0xFF00 and 0x0000 change nothing
WriteSingleCoil(d, address, value) ==
    IF address > MaxAddress THEN NoChange(d)
    ELSE [err |-> FALSE,
          data |-> IF value = 65280 THEN SetCoil(d, address, 1)
                   ELSE IF value = 0 THEN SetCoil(d, address, 0) ELSE d]

\* DataModel.WriteSingleRegister
WriteSingleRegister(d, e, address, value) ==
    IF address > MaxAddress THEN NoChange(d)
    ELSE [err |-> FALSE, data |-> SetHolding(d, e, address, value)]

RECURSIVE CoilLoop(_, _, _, _, _)
CoilLoop(d, address, quantity, bytes, i) ==
    IF i >= quantity THEN d
    ELSE LET val == (bytes[(i \div 8) + 1] \div (2 ^ (i % 8))) % 2
             d2 == SetCoil(d, address + i, val)
         IN CoilLoop(d2, address, quantity, bytes, i + 1)

\* DataModel.WriteMultipleCoils
WriteMultipleCoils(d, address, quantity, bytes) ==
    IF ~ValidateRange(address, quantity) THEN NoChange(d)
    ELSE IF Len(bytes) < (quantity + 7) \div 8 THEN NoChange(d)
    ELSE [err |-> FALSE, data |-> CoilLoop(d, address, quantity, bytes, 0)]

\* the loop of WriteMultipleRegisters from index i on: register address+k takes
\* the k-th big-endian pair of bytes.  The registers written are distinct, so
\* the bytes after the loop are given place by place.
RegisterLoop(d, e, address, quantity, bytes, i) ==
    LET first == offsetHolding + 2 * (address + i)
        last == offsetHolding + 2 * (address + quantity) - 1
        ByteAt(j) ==
            LET k == (j - offsetHolding) \div 2 - address
            IN HostByte(e, BigEndian16(bytes[2 * k + 1], bytes[2 * k + 2]),
                        (j - offsetHolding) % 2)
        written == {j \in first..last : ByteAt(j) # 0}
    IN [j \in (DOMAIN d \ (first..last)) \cup written |->
           IF j \in written THEN ByteAt(j) ELSE d[j]]

\* DataModel.WriteMultipleRegisters
WriteMultipleRegisters(d, e, address, quantity, bytes) ==
    IF ~ValidateRange(address, quantity) THEN NoChange(d)
    ELSE IF Len(bytes) < quantity * 2 THEN NoChange(d)
    ELSE [err |-> FALSE, data |-> RegisterLoop(d, e, address, quantity, bytes, 0)]

\* a read's outcome: err for the error return, panic for an index out of
\* range, bytes for the result
ReadResult(err, panic, bytes) == [err |-> err, panic |-> panic, bytes |-> bytes]

\* a reader that emits each register low byte first
ReadHoldingRegistersLowFirst(d, e, address, quantity) ==
    IF ~ValidateRange(address, quantity) THEN ReadResult(TRUE, FALSE, <<>>)
    ELSE ReadResult(FALSE, FALSE,
             [k \in 1..(2 * quantity) |->
                 LET val == HoldingAt(d, e, address + ((k - 1) \div 2))
                 IN IF k % 2 = 1 THEN val % 256 ELSE val \div 256])

\* DataModel.ReadHoldingRegisters: the result has uint16(quantity*2) bytes
ReadHoldingRegisters(d, e, address, quantity) ==
    IF ~ValidateRange(address, quantity) THEN ReadResult(TRUE, FALSE, <<>>)
    ELSE IF (quantity * 2) % 65536 < quantity * 2 THEN ReadResult(FALSE, TRUE, <<>>)
    ELSE ReadResult(FALSE, FALSE,
             [k \in 1..(2 * quantity) |->
                 LET val == HoldingAt(d, e, address + ((k - 1) \div 2))
                 IN IF k % 2 = 1 THEN val \div 256 ELSE val % 256])

\* a reader that packs the first coil into the highest bit
ReadCoilsHighFirst(d, address, quantity) ==
    IF ~ValidateRange(address, quantity) THEN ReadResult(TRUE, FALSE, <<>>)
    ELSE ReadResult(FALSE, FALSE,
             [k \in 1..((quantity + 7) \div 8) |->
                 LET Bit(j) == IF 8 * (k - 1) + j < quantity
                                  /\ CoilAt(d, address + 8 * (k - 1) + j) # 0
                               THEN 2 ^ (7 - j) ELSE 0
                 IN Bit(0) + Bit(1) + Bit(2) + Bit(3) + Bit(4) + Bit(5) + Bit(6) + Bit(7)])

\* DataModel.ReadCoils: coil address+i is bit i%8 of byte i/8
ReadCoils(d, address, quantity) ==
    IF ~ValidateRange(address, quantity) THEN ReadResult(TRUE, FALSE, <<>>)
    ELSE ReadResult(FALSE, FALSE,
             [k \in 1..((quantity + 7) \div 8) |->
                 LET Bit(j) == IF 8 * (k - 1) + j < quantity
                                  /\ CoilAt(d, address + 8 * (k - 1) + j) # 0
                               THEN 2 ^ j ELSE 0
                 IN Bit(0) + Bit(1) + Bit(2) + Bit(3) + Bit(4) + Bit(5) + Bit(6) + Bit(7)])

\* m.DiscreteInputs[a], m.InputRegisters[a] of mapBytesToModel(d)
DiscreteAt(d, a) == Get(d, offsetDiscrete + a)

InputAt(d, e, a) ==
    FromHost(e, Get(d, offsetInput + 2 * a), Get(d, offsetInput + 2 * a + 1))

\* DataModel.ReadDiscreteInputs: packed as the coils are
ReadDiscreteInputs(d, address, quantity) ==
    IF ~ValidateRange(address, quantity) THEN ReadResult(TRUE, FALSE, <<>>)
    ELSE ReadResult(FALSE, FALSE,
             [k \in 1..((quantity + 7) \div 8) |->
                 LET Bit(j) == IF 8 * (k - 1) + j < quantity
                                  /\ DiscreteAt(d, address + 8 * (k - 1) + j) # 0
                               THEN 2 ^ j ELSE 0
                 IN Bit(0) + Bit(1) + Bit(2) + Bit(3) + Bit(4) + Bit(5) + Bit(6) + Bit(7)])

\* DataModel.ReadInputRegisters: each register high byte first
ReadInputRegisters(d, e, address, quantity) ==
    IF ~ValidateRange(address, quantity) THEN ReadResult(TRUE, FALSE, <<>>)
    ELSE IF (quantity * 2) % 65536 < quantity * 2 THEN ReadResult(FALSE, TRUE, <<>>)
    ELSE ReadResult(FALSE, FALSE,
             [k \in 1..(2 * quantity) |->
                 LET val == InputAt(d, e, address + ((k - 1) \div 2))
                 IN IF k % 2 = 1 THEN val \div 256 ELSE val % 256])


(***************************************************************************)
(* The local slave: LocalSlave.Process and its handlers.                   *)
(***************************************************************************)
ExceptionCodeIllegalFunction == 1
ExceptionCodeIllegalDataAddress == 2
ExceptionCodeIllegalDataValue == 3

\* LocalSlave.exception
Exception(funcCode, code) ==
    [fc |-> Or8(funcCode, 128), data |-> <<code>>, hooks |-> <<>>]

Handled(resp, d) == [resp |-> resp, data |-> d]

Normal(fc, data) == [fc |-> fc, data |-> data, hooks |-> <<>>]

handleWriteSingleCoil(req, d) ==
    IF Len(req.data) # 4
    THEN Handled(Exception(req.fc, ExceptionCodeIllegalDataValue), d)
    ELSE LET address == BigEndian16(req.data[1], req.data[2])
             value == BigEndian16(req.data[3], req.data[4])
             w == WriteSingleCoil(d, address, value)
         IN IF w.err THEN Handled(Exception(req.fc, ExceptionCodeIllegalDataAddress), d)
            ELSE Handled(Normal(req.fc, req.data), w.data)

handleWriteSingleRegister(req, d, e) ==
    IF Len(req.data) # 4
    THEN Handled(Exception(req.fc, ExceptionCodeIllegalDataValue), d)
    ELSE LET address == BigEndian16(req.data[1], req.data[2])
             value == BigEndian16(req.data[3], req.data[4])
             w == WriteSingleRegister(d, e, address, value)
         IN IF w.err THEN Handled(Exception(req.fc, ExceptionCodeIllegalDataAddress), d)
            ELSE Handled(Normal(req.fc, req.data), w.data)

handleWriteMultipleCoils(req, d) ==
    IF Len(req.data) < 6
    THEN Handled(Exception(req.fc, ExceptionCodeIllegalDataValue), d)
    ELSE LET address == BigEndian16(req.data[1], req.data[2])
             quantity == BigEndian16(req.data[3], req.data[4])
             byteCount == req.data[5]
             w == WriteMultipleCoils(d, address, quantity, Slice(req.data, 5, Len(req.data)))
         IN IF quantity < 1 \/ quantity > 1968
            THEN Handled(Exception(req.fc, ExceptionCodeIllegalDataValue), d)
            ELSE IF (Len(req.data) - 5) % 256 # byteCount
            THEN Handled(Exception(req.fc, ExceptionCodeIllegalDataValue), d)
            ELSE IF w.err
            THEN Handled(Exception(req.fc, ExceptionCodeIllegalDataAddress), d)
            ELSE Handled(Normal(req.fc, SubSeq(req.data, 1, 4)), w.data)

\* a handler that has the model write before it compares the byte count
handleWriteMultipleRegistersWriteFirst(req, d, e) ==
    IF Len(req.data) < 6
    THEN Handled(Exception(req.fc, ExceptionCodeIllegalDataValue), d)
    ELSE LET address == BigEndian16(req.data[1], req.data[2])
             quantity == BigEndian16(req.data[3], req.data[4])
             byteCount == req.data[5]
             w == WriteMultipleRegisters(d, e, address, quantity,
                                         Slice(req.data, 5, Len(req.data)))
         IN IF quantity < 1 \/ quantity > 123
            THEN Handled(Exception(req.fc, ExceptionCodeIllegalDataValue), d)
            ELSE IF (Len(req.data) - 5) % 256 # byteCount
            THEN Handled(Exception(req.fc, ExceptionCodeIllegalDataValue), w.data)
            ELSE IF w.err
            THEN Handled(Exception(req.fc, ExceptionCodeIllegalDataAddress), d)
            ELSE Handled(Normal(req.fc, SubSeq(req.data, 1, 4)), w.data)

handleWriteMultipleRegisters(req, d, e) ==
    IF Len(req.data) < 6
    THEN Handled(Exception(req.fc, ExceptionCodeIllegalDataValue), d)
    ELSE LET address == BigEndian16(req.data[1], req.data[2])
             quantity == BigEndian16(req.data[3], req.data[4])
             byteCount == req.data[5]
             w == WriteMultipleRegisters(d, e, address, quantity,
                                         Slice(req.data, 5, Len(req.data)))
         IN IF quantity < 1 \/ quantity > 123
            THEN Handled(Exception(req.fc, ExceptionCodeIllegalDataValue), d)
            ELSE IF (Len(req.data) - 5) % 256 # byteCount
            THEN Handled(Exception(req.fc, ExceptionCodeIllegalDataValue), d)
            ELSE IF w.err
            THEN Handled(Exception(req.fc, ExceptionCodeIllegalDataAddress), d)
            ELSE Handled(Normal(req.fc, SubSeq(req.data, 1, 4)), w.data)

\* the model's read of a table
ReadTable(table, d, e, address, quantity) ==
    IF table = "coils" THEN ReadCoils(d, address, quantity)
    ELSE IF table = "discrete" THEN ReadDiscreteInputs(d, address, quantity)
    ELSE IF table = "holding" THEN ReadHoldingRegisters(d, e, address, quantity)
    ELSE ReadInputRegisters(d, e, address, quantity)

\* the shape shared by the four read handlers: four data bytes, a quantity
\* of 1..limit, then the model's read; the response is the byte count and
\* the bytes read
ReadHandler(req, d, e, limit, table) ==
    IF Len(req.data) # 4
    THEN Handled(Exception(req.fc, ExceptionCodeIllegalDataValue), d)
    ELSE LET address == BigEndian16(req.data[1], req.data[2])
             quantity == BigEndian16(req.data[3], req.data[4])
             r == ReadTable(table, d, e, address, quantity)
         IN IF quantity < 1 \/ quantity > limit
            THEN Handled(Exception(req.fc, ExceptionCodeIllegalDataValue), d)
            ELSE IF r.err
            THEN Handled(Exception(req.fc, ExceptionCodeIllegalDataAddress), d)
            ELSE Handled(Normal(req.fc, <<Len(r.bytes) % 256>> \o r.bytes), d)

handleReadCoils(req, d) == ReadHandler(req, d, "little", 2000, "coils")

handleReadDiscreteInputs(req, d) == ReadHandler(req, d, "little", 2000, "discrete")

handleReadHoldingRegisters(req, d, e) == ReadHandler(req, d, e, 125, "holding")

handleReadInputRegisters(req, d, e) == ReadHandler(req, d, e, 125, "input")

\* LocalSlave.Process
Process(req, d, e) ==
    IF req.fc = 1 THEN handleReadCoils(req, d)
    ELSE IF req.fc = 2 THEN handleReadDiscreteInputs(req, d)
    ELSE IF req.fc = 3 THEN handleReadHoldingRegisters(req, d, e)
    ELSE IF req.fc = 4 THEN handleReadInputRegisters(req, d, e)
    ELSE IF req.fc = 5 THEN handleWriteSingleCoil(req, d)
    ELSE IF req.fc = 6 THEN handleWriteSingleRegister(req, d, e)
    ELSE IF req.fc = 15 THEN handleWriteMultipleCoils(req, d)
    ELSE IF req.fc = 16 THEN handleWriteMultipleRegisters(req, d, e)
    ELSE Handled(Exception(req.fc, ExceptionCodeIllegalFunction), d)

Pdu(fc, data) == [fc |-> fc, data |-> data]

\* the write requests a master sends: coil 10 on and off, register 10 to
\* 0xCAFE and to 0, register 65535, two coils and two registers from 10 and
\* from 65535, and malformed ones
WriteRequests ==
    {Pdu(5, <<0, 10, 255, 0>>), Pdu(5, <<0, 10, 0, 0>>), Pdu(5, <<0, 10, 255>>),
     Pdu(6, <<0, 10, 202, 254>>), Pdu(6, <<0, 10, 0, 0>>), Pdu(6, <<255, 255, 202, 254>>),
     Pdu(15, <<0, 10, 0, 2, 1, 3>>), Pdu(15, <<255, 255, 0, 2, 1, 3>>),
     Pdu(15, <<0, 10, 0, 2, 2, 3>>),
     Pdu(16, <<0, 10, 0, 2, 4, 202, 254, 0, 1>>),
     Pdu(16, <<255, 255, 0, 2, 4, 202, 254, 0, 1>>),
     Pdu(16, <<0, 10, 0, 0, 0, 0>>),
     Pdu(43, <<14, 1, 0>>)}

\* the values of table t over [a, a+q) in the model mapped onto d
RangeVals(d, e, t, a, q) ==
    [i \in 1..q |-> IF t = "coils" THEN CoilAt(d, a + i - 1) ELSE HoldingAt(d, e, a + i - 1)]

\* the record of the last on-write stays valid while its range is unwritten
KeepPromise(p, d, e) ==
    IF p.valid /\ RangeVals(d, e, p.table, p.address, p.quantity) # p.vals
    THEN [p EXCEPT !.valid = FALSE] ELSE p

\* the local client's Send: one request through Process.  Under the mmap
\* backend the model's slices are the shared mapping of the file.
SlaveProcess(req) ==
    /\ sproc = "running"
    /\ LET h == Process(req, mdata, mendian) IN
         /\ mdata' = h.data
         /\ lresp' = h.resp
         /\ fdata' = IF sbackend = "mmap" THEN h.data ELSE fdata
         /\ sprom' = KeepPromise(sprom, h.data, mendian)
    /\ lreq' = req
    /\ UNCHANGED <<mendian, sbackend, sproc, srestarts, exceptSlave>>

\* the local slave over memory storage
SlaveStart ==
    /\ mdata = <<>>
    /\ mendian \in {"little", "big"}
    /\ lreq = NoPdu
    /\ lresp = NoResponse
    /\ StoreIdle

SlaveInit == SlaveStart /\ CodecIdle /\ SendIdle /\ GwIdle /\ RouteIdle /\ ShutIdle /\ WireIdle

\* the read requests a master sends: two items from address 10 of each table
ReadRequests ==
    {Pdu(1, <<0, 10, 0, 2>>), Pdu(2, <<0, 10, 0, 2>>),
     Pdu(3, <<0, 10, 0, 2>>), Pdu(4, <<0, 10, 0, 2>>)}

\* requests with one fault each: a data length of 3, quantities of 0 and of
\* one above the limit, ranges that pass address 65535, and write-multiple
\* requests whose byte count is the payload's length while the quantity
\* needs more bytes
InvalidRequests ==
    {Pdu(1, <<0, 10, 0>>), Pdu(3, <<0, 10, 0>>),
     Pdu(1, <<0, 10, 7, 209>>), Pdu(2, <<0, 10, 0, 0>>),
     Pdu(3, <<0, 10, 0, 126>>), Pdu(4, <<0, 10, 0, 0>>),
     Pdu(1, <<255, 255, 0, 2>>), Pdu(2, <<255, 248, 0, 9>>),
     Pdu(3, <<255, 255, 0, 2>>), Pdu(4, <<255, 0, 1, 1>>),
     Pdu(15, <<0, 10, 7, 177, 1, 3>>), Pdu(16, <<0, 10, 0, 124, 2, 0, 1>>),
     Pdu(15, <<0, 10, 0, 2, 1>>), Pdu(16, <<0, 10, 0, 1, 2, 0, 1, 0>>),
     Pdu(15, <<0, 10, 0, 16, 1, 255>>), Pdu(16, <<0, 10, 0, 2, 2, 202, 254>>),
     Pdu(8, <<0, 0>>)}

\* writes of coil 10 with values that are neither 0xFF00 nor 0x0000
CoilRequests ==
    {Pdu(5, <<0, 10, 0, 1>>), Pdu(5, <<0, 10, 18, 52>>), Pdu(5, <<0, 10, 255, 255>>)}

\* write-multiple requests whose byte count is the payload's length and more
\* than the quantity needs: one register with four bytes, two coils with two
ByteCountRequests ==
    {Pdu(16, <<0, 10, 0, 1, 4, 0, 1, 0, 2>>), Pdu(15, <<0, 10, 0, 2, 2, 3, 0>>)}

Requests ==
    WriteRequests \cup ReadRequests \cup InvalidRequests \cup CoilRequests
        \cup ByteCountRequests

SlaveNext == \E req \in Requests : SlaveProcess(req)

SpecSlave == SlaveInit /\ [][SlaveNext]_vars

\* the table, address and quantity a write request names
WrittenRange(req) ==
    [table |-> IF req.fc \in {5, 15} THEN "coils" ELSE "holding",
     address |-> BigEndian16(req.data[1], req.data[2]),
     quantity |-> IF req.fc \in {5, 6} THEN 1 ELSE BigEndian16(req.data[3], req.data[4])]

\* C9: every write request (0x05, 0x06, 0x0F, 0x10) answered with a normal
\* response is followed, before the response is returned, by an invocation of
\* the storage's on-write hook with the written table, address and quantity.
C9_WriteInvokesOnWrite ==
    (lreq.fc \in {5, 6, 15, 16} /\ lresp.fc = lreq.fc) =>
        lresp.hooks = <<WrittenRange(lreq)>>

\* the function codes the slave serves, and the quantity limits of those
\* that carry a quantity
Supported == {1, 2, 3, 4, 5, 6, 15, 16}

QuantityLimit(fc) ==
    IF fc \in {1, 2} THEN 2000 ELSE IF fc \in {3, 4} THEN 125
    ELSE IF fc = 15 THEN 1968 ELSE 123

\* the bytes a write-multiple request of quantity q carries after its byte
\* count
PayloadNeeded(fc, q) == IF fc = 15 THEN (q + 7) \div 8 ELSE 2 * q

\* the exception codes assigned to the faults of a request: 1 for a function
\* code that is not served; else 3 for a data length wrong for the function
\* code (not four bytes for 0x01..0x06, a write-multiple without payload or
\* with fewer payload bytes than its quantity needs), 3 for a quantity out of
\* range, 2 for a range that passes address 65535, 3 for a byte count that is
\* not the payload's length
AssignedCodes(req) ==
    IF req.fc \notin Supported THEN {ExceptionCodeIllegalFunction}
    ELSE IF req.fc \in 1..6
    THEN IF Len(req.data) # 4 THEN {ExceptionCodeIllegalDataValue}
         ELSE LET address == BigEndian16(req.data[1], req.data[2])
                  quantity == IF req.fc \in 1..4
                              THEN BigEndian16(req.data[3], req.data[4]) ELSE 1
              IN (IF quantity < 1 \/ quantity > QuantityLimit(req.fc)
                  THEN {ExceptionCodeIllegalDataValue} ELSE {})
                 \cup (IF address + quantity > 65536
                       THEN {ExceptionCodeIllegalDataAddress} ELSE {})
    ELSE IF Len(req.data) < 6 THEN {ExceptionCodeIllegalDataValue}
    ELSE LET address == BigEndian16(req.data[1], req.data[2])
             quantity == BigEndian16(req.data[3], req.data[4])
             payload == Len(req.data) - 5
             inRange == quantity >= 1 /\ quantity <= QuantityLimit(req.fc)
         IN (IF ~inRange THEN {ExceptionCodeIllegalDataValue} ELSE {})
            \cup (IF inRange /\ payload < PayloadNeeded(req.fc, quantity)
                  THEN {ExceptionCodeIllegalDataValue} ELSE {})
            \cup (IF req.data[5] # payload
                  THEN {ExceptionCodeIllegalDataValue} ELSE {})
            \cup (IF address + quantity > 65536
                  THEN {ExceptionCodeIllegalDataAddress} ELSE {})

\* C21: every invalid request is answered with an exception PDU, function
\* code request.fc|0x80 and one data byte, whose code is the one assigned to
\* a fault of the request: 3 for a wrong data length, 3 for a quantity out of
\* range, 2 for address + quantity beyond 65536, 3 for a byte count that is
\* not the payload's length, 1 for an unsupported function code.
C21_InvalidRequestException ==
    (lreq # NoPdu /\ AssignedCodes(lreq) # {}) =>
        /\ lresp.fc = Or8(lreq.fc, 128)
        /\ Len(lresp.data) = 1
        /\ lresp.data[1] \in AssignedCodes(lreq)

\* C24: a write-single-coil request with value 0xFF00 sets the coil ON, with
\* 0x0000 sets it OFF, and with any other value leaves the coil (and the rest
\* of the model) as it was; in all three cases the response is the echo of
\* the request, not an exception.
C24_WriteSingleCoilValues ==
    [][(lreq'.fc = 5 /\ Len(lreq'.data) = 4) =>
          LET address == BigEndian16(lreq'.data[1], lreq'.data[2])
              value == BigEndian16(lreq'.data[3], lreq'.data[4])
          IN /\ value = 65280 => CoilAt(mdata', address) = 1
             /\ value = 0 => CoilAt(mdata', address) = 0
             /\ value \notin {0, 65280} => mdata' = mdata
             /\ lresp'.fc = 5
             /\ lresp'.data = lreq'.data]_vars

\* coil 10 is ON after a write of 0x1234 that was echoed
C24_Witness ==
    /\ lreq = Pdu(5, <<0, 10, 18, 52>>)
    /\ lresp.fc = 5
    /\ lresp.data = lreq.data
    /\ CoilAt(mdata, 10) = 1

\* the bytes of the discrete-inputs and input-registers tables
ReadOnlyBytes(d) ==
    {i \in DOMAIN d : i \in offsetDiscrete..(offsetHolding - 1) \/ i >= offsetInput}

\* C35: no request processed by the local slave changes the discrete-inputs
\* table or the input-registers table: their bytes after a request are their
\* bytes before it, and so those the model was loaded with.
C35_ReadOnlyTablesUnchanged ==
    /\ ReadOnlyBytes(mdata) = {}
    /\ lreq.fc = 2 /\ lresp.fc = 2 => \A k \in 2..Len(lresp.data) : lresp.data[k] = 0
    /\ lreq.fc = 4 /\ lresp.fc = 4 => \A k \in 2..Len(lresp.data) : lresp.data[k] = 0

\* discrete inputs 10 and 11 were read as 0 after coils and registers had
\* been written
C35_Witness ==
    /\ lreq = Pdu(2, <<0, 10, 0, 2>>)
    /\ lresp.fc = 2
    /\ lresp.data = <<1, 0>>
    /\ CoilAt(mdata, 10) = 1
    /\ HoldingAt(mdata, mendian, 65535) = 51966

\* C38: a write-multiple request whose byte-count field is not the count its
\* quantity implies, ceil(quantity/8) for coils and 2*quantity for registers,
\* is answered with exception 0x03.
C38_ByteCountMatchesQuantity ==
    (lreq.fc \in {15, 16} /\ Len(lreq.data) >= 5
       /\ lreq.data[5] # PayloadNeeded(lreq.fc, BigEndian16(lreq.data[3], lreq.data[4]))) =>
        /\ lresp.fc = Or8(lreq.fc, 128)
        /\ lresp.data = <<ExceptionCodeIllegalDataValue>>

\* C39: a request answered with an exception response leaves the four tables
\* as they were; a rejected write-multiple applies none of its values.
C39_ExceptionLeavesTablesUnchanged ==
    [][lresp'.fc >= 128 => mdata' = mdata]_vars

\* register 10 still holds 0xCAFE after a write-multiple from address 65535
\* was rejected
C39_Witness ==
    /\ lreq = Pdu(16, <<255, 255, 0, 2, 4, 202, 254, 0, 1>>)
    /\ lresp.fc = 144
    /\ HoldingAt(mdata, mendian, 10) = 51966

(***************************************************************************)
(* The file and mmap persistence backends under the local slave: requests  *)
(* write the model, on-write syncs it, the process stops at any point and  *)
(* a fresh process loads the same backing file.                            *)
(***************************************************************************)
MaxRestarts == 1

\* how a sync ends: for the file backend WriteAt may fail after writing the
\* first cut bytes, or Sync may fail after WriteAt wrote everything; for the
\* mmap backend msync succeeds or fails
SyncOutcomes(backend) ==
    IF backend = "file"
    THEN {[res |-> "ok", cut |-> totalSize], [res |-> "syncFailed", cut |-> totalSize],
          [res |-> "writeFailed", cut |-> 0], [res |-> "writeFailed", cut |-> offsetHolding]}
    ELSE {[res |-> "ok", cut |-> totalSize], [res |-> "syncFailed", cut |-> totalSize]}

\* FileStorage.sync: the file after file.WriteAt(data, 0) and file.Sync()
FileSyncLost(d, f, out) == f

FileSync(d, f, out) ==
    [i \in {j \in DOMAIN d : j < out.cut} \cup {j \in DOMAIN f : j >= out.cut} |->
        IF i < out.cut THEN d[i] ELSE f[i]]

\* MmapStorage.sync: msync moves nothing a fresh process could not already see
MmapSync(d, f, out) == f

\* the arguments on-write is called with
HookArgs ==
    {[table |-> "holding", address |-> 10, quantity |-> 1],
     [table |-> "holding", address |-> 10, quantity |-> 2],
     [table |-> "holding", address |-> MaxAddress, quantity |-> 1],
     [table |-> "coils", address |-> 10, quantity |-> 1]}

StoreRequests ==
    {Pdu(5, <<0, 10, 255, 0>>), Pdu(6, <<0, 10, 202, 254>>), Pdu(6, <<0, 10, 0, 0>>),
     Pdu(6, <<255, 255, 202, 254>>), Pdu(16, <<0, 10, 0, 2, 4, 202, 254, 0, 1>>)}

\* the state after Load on a new backing file
StoreStart ==
    /\ sbackend \in {"file", "mmap"}
    /\ mendian \in {"little", "big"}
    /\ mdata = <<>>
    /\ fdata = <<>>
    /\ sproc = "running"
    /\ srestarts = 0
    /\ sprom = NoPromise
    /\ lreq = NoPdu
    /\ lresp = NoResponse

StoreInit == StoreStart /\ CodecIdle /\ SendIdle /\ GwIdle /\ RouteIdle /\ ShutIdle /\ WireIdle

\* FileStorage.OnWrite / MmapStorage.OnWrite: sync, log a failure, return
StoreOnWrite(h) ==
    /\ sproc = "running"
    /\ \E out \in SyncOutcomes(sbackend) :
         /\ fdata' = IF sbackend = "file" THEN FileSync(mdata, fdata, out)
                     ELSE MmapSync(mdata, fdata, out)
         /\ sprom' = [valid |-> TRUE, table |-> h.table, address |-> h.address,
                      quantity |-> h.quantity,
                      vals |-> RangeVals(mdata, mendian, h.table, h.address, h.quantity),
                      ok |-> out.res = "ok", gen |-> srestarts]
    /\ UNCHANGED <<mdata, mendian, lreq, lresp, sbackend, sproc, srestarts, exceptSlave>>

\* the process stops; what it held in memory is gone
StoreStop ==
    /\ sproc = "running"
    /\ sproc' = "stopped"
    /\ mdata' = <<>>
    /\ lreq' = NoPdu
    /\ lresp' = NoResponse
    /\ UNCHANGED <<mendian, sbackend, fdata, srestarts, sprom, exceptSlave>>

\* Load in a fresh process: the file has its full size, its bytes become the
\* bytes behind the model
StoreLoad ==
    /\ sproc = "stopped"
    /\ srestarts < MaxRestarts
    /\ sproc' = "running"
    /\ srestarts' = srestarts + 1
    /\ mdata' = fdata
    /\ UNCHANGED <<mendian, lreq, lresp, sbackend, fdata, sprom, exceptSlave>>

StoreNext ==
    \/ \E req \in StoreRequests : SlaveProcess(req)
    \/ \E h \in HookArgs : StoreOnWrite(h)
    \/ StoreStop
    \/ StoreLoad

SpecStore == StoreInit /\ [][StoreNext]_vars

\* a fresh process has loaded the file after the on-write sprom records, and
\* the range has not been written since that on-write returned
LoadedAfterOnWrite ==
    /\ sproc = "running"
    /\ sprom.valid
    /\ srestarts > sprom.gen

LoadedRange == RangeVals(mdata, mendian, sprom.table, sprom.address, sprom.quantity)

TidSamples == {0, 255, 256, 43981, 65535}
ProtoSamples == {0, 1}
LengthSamples == {0, 3, 6, 65535}

TcpDataSamples ==
    SeqsUpTo({0, 255}, MaxDataLen)
        \cup {[i \in 1..n |-> 170] : n \in {tcpMaxSize - 9, tcpMaxSize - 8, tcpMaxSize - 7}}

TcpStart ==
    /\ cpc = "start"
    /\ cin \in [tid : TidSamples, proto : ProtoSamples, length : LengthSamples,
                unit : {0, 255}, fc : {3, 131}, data : TcpDataSamples]
    /\ cframe = <<>>
    /\ cout = NoTcpAdu

TcpCodecEncode ==
    /\ cpc = "start"
    /\ cframe' = TcpEncode(cin.tid, cin.proto, cin.length, cin.unit, cin.fc, cin.data)
    /\ cpc' = IF cframe' = <<>> THEN "refused" ELSE "encoded"
    /\ UNCHANGED <<cin, cout, exceptCodec>>

TcpCodecDecode ==
    /\ cpc = "encoded"
    /\ cout' = TcpDecode(cframe)
    /\ cpc' = "decoded"
    /\ UNCHANGED <<cin, cframe, exceptCodec>>

\* Client.Send: the request ADU built around the PDU, as written to the slave
ClientRequestFrame(tid, unit, fc, data) ==
    TcpEncode(tid, 0, 1 + Len(data), unit, fc, data)

TcpClientWrites ==
    /\ cpc = "start"
    /\ cframe' = ClientRequestFrame(cin.tid, cin.unit, cin.fc, cin.data)
    /\ cpc' = IF cframe' = <<>> THEN "refused" ELSE "requestWritten"
    /\ UNCHANGED <<cin, cout, exceptCodec>>

\* Server.handleConnection: the response ADU built for the decoded request,
\* the handler answering with a PDU of the request's function code and data
TcpServerWrites ==
    /\ cpc = "start"
    /\ cframe' = ResponseFrame("tcp", cin, cin.fc, cin.data)
    /\ cpc' = IF cframe' = <<>> THEN "refused" ELSE "responseWritten"
    /\ UNCHANGED <<cin, cout, exceptCodec>>

\* Server.handleConnection: conn.Read returns the frame on the wire; what
\* Decode accepts is handed to the handler, what it refuses is skipped
TcpServerReceives ==
    /\ cpc = "encoded"
    /\ cout' = TcpDecode(cframe)
    /\ cpc' = IF cout'.ok THEN "dispatched" ELSE "dropped"
    /\ UNCHANGED <<cin, cframe, exceptCodec>>

\* Client.sendAndRead after the write: six header bytes, then as many bytes
\* as the length field announces; a stream that ends before is a read error
SendAndRead(stream) ==
    IF Len(stream) < 6 THEN [err |-> TRUE, bytes |-> <<>>]
    ELSE LET length == stream[5] * 256 + stream[6] IN
         IF Len(stream) < 6 + length THEN [err |-> TRUE, bytes |-> <<>>]
         ELSE [err |-> FALSE, bytes |-> SubSeq(stream, 1, 6 + length)]

\* ApplicationDataUnit.Verify: the response is checked against the request
Verify(reqTid, resp) == resp.tid = reqTid

\* Client.Send from sendAndRead on, the slave having written the frame on the
\* wire in answer to a request of transaction-id reqTid: the PDU of the
\* response is returned unless the read, Decode or Verify fails
TcpClientReceives(reqTid) ==
    /\ cpc = "encoded"
    /\ LET r == SendAndRead(cframe)
           adu == TcpDecode(r.bytes)
       IN IF r.err \/ ~adu.ok \/ ~Verify(reqTid, adu)
          THEN cpc' = "exchangeFailed" /\ cout' = NoTcpAdu
          ELSE cpc' = "returned" /\ cout' = adu
    /\ UNCHANGED <<cin, cframe, exceptCodec>>

TcpNext ==
    \/ TcpCodecEncode
    \/ TcpCodecDecode
    \/ TcpClientWrites
    \/ TcpServerWrites
    \/ TcpServerReceives
    \/ \E reqTid \in TidSamples : TcpClientReceives(reqTid)

TcpInit == TcpStart /\ SendIdle /\ GwIdle /\ RouteIdle /\ SlaveIdle /\ ShutIdle /\ WireIdle

SpecTcp == TcpInit /\ [][TcpNext]_vars

\* C11: TCP decode inverts TCP encode: for every transaction-id in 0..65535,
\* every unit-id and every PDU of at most 252 data bytes, encode succeeds and
\* decoding its frame yields the same transaction-id, protocol-id, length,
\* unit-id, function code and data.
C11_TcpRoundTrip ==
    /\ cpc = "refused" => Len(cin.data) > 252
    /\ cpc = "decoded" =>
          cout = [ok |-> TRUE, tid |-> cin.tid, proto |-> cin.proto,
                  length |-> cin.length, unit |-> cin.unit, fc |-> cin.fc,
                  data |-> cin.data]

\* an ADU with transaction-id 65535 and 252 data bytes went through encode
\* and decode
C11_Witness ==
    /\ cpc = "decoded"
    /\ cin.tid = 65535
    /\ Len(cin.data) = 252
    /\ cout.ok

\* the length field of an MBAP frame
LengthField(f) == f[5] * 256 + f[6]

\* C12: every MBAP frame the gateway emits, request of the TCP client or
\* response of the TCP server, carries a length field equal to 1 + |pdu|,
\* the number of bytes that follow the field.
C12_LengthFieldCountsFollowingBytes ==
    cpc \in {"requestWritten", "responseWritten"} =>
        /\ LengthField(cframe) = 1 + (1 + Len(cin.data))
        /\ LengthField(cframe) = Len(cframe) - 6

\* C32: a received MBAP frame whose protocol-id is not 0 is a framing error:
\* the TCP server does not hand it to the handler, and the TCP client fails
\* the exchange instead of returning the frame's PDU.
C32_NonZeroProtocolIdRejected ==
    cin.proto # 0 => cpc \notin {"dispatched", "returned"}

(***************************************************************************)
(* DataModel driver: writes of register and coil ranges, each of which may *)
(* be followed by a read of the range just written.                        *)
(***************************************************************************)
MaxRegisters == 123

\* 2n bytes that differ from place to place
Pattern(n, seed) == [k \in 1..(2 * n) |-> (seed + 7 * k) % 256]

Call(op, address, quantity, bytes) ==
    [op |-> op, address |-> address, quantity |-> quantity, bytes |-> bytes, err |-> FALSE]

\* register writes: single registers at both ends of the table, the longest
\* block ending at the last address, and calls the model refuses
RegisterWrites ==
    {Call("writeRegisters", 0, 1, <<202, 254>>),
     Call("writeRegisters", MaxAddress, 1, <<255, 255>>),
     Call("writeRegisters", MaxAddress + 1 - MaxRegisters, MaxRegisters, Pattern(MaxRegisters, 1)),
     Call("writeRegisters", MaxAddress + 1 - MaxRegisters, MaxRegisters, Pattern(MaxRegisters, 128)),
     Call("writeRegisters", MaxAddress, 2, <<1, 2, 3, 4>>),
     Call("writeRegisters", 0, 0, <<>>),
     Call("writeRegisters", 0, 1, <<1>>)}

\* coil writes: quantities that end inside a byte, on a byte, and past it
CoilWrites ==
    {Call("writeCoils", 0, 1, <<1>>),
     Call("writeCoils", 10, 9, <<255, 255>>),
     Call("writeCoils", 10, 9, <<170, 1>>),
     Call("writeCoils", MaxAddress - 7, 8, <<165>>),
     Call("writeCoils", MaxAddress, 1, <<255>>),
     Call("writeCoils", MaxAddress, 2, <<3>>),
     Call("writeCoils", 0, 0, <<>>),
     Call("writeCoils", 10, 9, <<255>>)}

NoRead == [op |-> "none", err |-> FALSE, panic |-> FALSE, bytes |-> <<>>]

ModelStart ==
    /\ mdata = <<>>
    /\ mendian \in {"little", "big"}
    /\ lreq = Call("none", 0, 0, <<>>)
    /\ lresp = NoRead
    /\ StoreIdle

ModelInit == ModelStart /\ CodecIdle /\ SendIdle /\ GwIdle /\ RouteIdle /\ ShutIdle /\ WireIdle

ModelWriteRegisters(c) ==
    /\ LET w == WriteMultipleRegisters(mdata, mendian, c.address, c.quantity, c.bytes) IN
         /\ mdata' = w.data
         /\ lreq' = [c EXCEPT !.err = w.err]
    /\ lresp' = NoRead
    /\ UNCHANGED <<mendian, sbackend, fdata, sproc, srestarts, sprom, exceptSlave>>

ModelWriteCoils(c) ==
    /\ LET w == WriteMultipleCoils(mdata, c.address, c.quantity, c.bytes) IN
         /\ mdata' = w.data
         /\ lreq' = [c EXCEPT !.err = w.err]
    /\ lresp' = NoRead
    /\ UNCHANGED <<mendian, sbackend, fdata, sproc, srestarts, sprom, exceptSlave>>

ModelReadHolding ==
    /\ lreq.op = "writeRegisters"
    /\ lresp.op = "none"
    /\ lresp' = [op |-> "readHolding"]
                    @@ ReadHoldingRegisters(mdata, mendian, lreq.address, lreq.quantity)
    /\ UNCHANGED <<mdata, mendian, lreq, sbackend, fdata, sproc, srestarts, sprom,
                   exceptSlave>>

ModelReadCoils ==
    /\ lreq.op = "writeCoils"
    /\ lresp.op = "none"
    /\ lresp' = [op |-> "readCoils"] @@ ReadCoils(mdata, lreq.address, lreq.quantity)
    /\ UNCHANGED <<mdata, mendian, lreq, sbackend, fdata, sproc, srestarts, sprom,
                   exceptSlave>>

ModelNext ==
    \/ \E c \in RegisterWrites : ModelWriteRegisters(c)
    \/ \E c \in CoilWrites : ModelWriteCoils(c)
    \/ ModelReadHolding
    \/ ModelReadCoils

SpecModel == ModelInit /\ [][ModelNext]_vars

\* C13: for every address a and quantity n with 1 <= n <= 123 and
\* a + n <= 65536 and every sequence of 2n bytes, write-multiple-registers(a,
\* n, bytes) succeeds and a read-holding-registers(a, n) that follows with no
\* write in between returns exactly those bytes.
C13_RegistersRoundTrip ==
    (/\ lreq.op = "writeRegisters"
     /\ 1 <= lreq.quantity /\ lreq.quantity <= 123
     /\ lreq.address + lreq.quantity <= 65536
     /\ Len(lreq.bytes) = 2 * lreq.quantity) =>
        /\ ~lreq.err
        /\ lresp.op = "readHolding" =>
              (~lresp.err /\ ~lresp.panic /\ lresp.bytes = lreq.bytes)

\* 123 registers ending at address 65535 were written over earlier contents
\* and read back
C13_Witness ==
    /\ lreq.op = "writeRegisters"
    /\ lreq.quantity = 123
    /\ lreq.address + lreq.quantity = 65536
    /\ lresp.op = "readHolding"
    /\ lreq.bytes = Pattern(123, 128)
    /\ lresp.bytes = lreq.bytes

\* packed with every bit above the low n bits cleared
MaskLowBits(packed, n) ==
    [k \in 1..((n + 7) \div 8) |->
        IF 8 * k <= n THEN packed[k] ELSE packed[k] % (2 ^ (n - 8 * (k - 1)))]

\* C14: for every address a and quantity n with n >= 1 and a + n <= 65536,
\* write-multiple-coils(a, n, packed) followed with no write in between by
\* read-coils(a, n) returns ceil(n/8) bytes equal to packed with every bit
\* above the low n bits cleared, coil a+i being bit i, lowest bit first.
C14_CoilsRoundTrip ==
    (/\ lreq.op = "writeCoils"
     /\ ~lreq.err
     /\ lreq.quantity >= 1
     /\ lreq.address + lreq.quantity <= 65536
     /\ lresp.op = "readCoils") =>
        /\ ~lresp.err
        /\ Len(lresp.bytes) = (lreq.quantity + 7) \div 8
        /\ lresp.bytes = MaskLowBits(lreq.bytes, lreq.quantity)
        /\ \A i \in 0..(lreq.quantity - 1) :
              (lresp.bytes[(i \div 8) + 1] \div (2 ^ (i % 8))) % 2
                  = CoilAt(mdata, lreq.address + i)

\* nine coils written from two bytes of ones read back as 0xFF 0x01
C14_Witness ==
    /\ lreq.op = "writeCoils"
    /\ lreq.quantity = 9
    /\ lreq.bytes = <<255, 255>>
    /\ lresp.op = "readCoils"
    /\ lresp.bytes = <<255, 1>>

(***************************************************************************)
(* ID-parser driver: ParseSlaveIDs applied to slave_ids strings.           *)
(***************************************************************************)
MaxStrLen == 4

ParseAlphabet == {"2", "5", "6", ",", "-", " ", "+", "x"}

\* every string of up to MaxStrLen characters of the alphabet, and
\* "1,2,5-7, 10", "5-3", "256", "0-255", "0-300", "1-2-3", " 7 - 9 ,,1",
\* "-5", twenty nines
ParseInputs ==
    SeqsUpTo(ParseAlphabet, MaxStrLen)
        \cup {<<"1", ",", "2", ",", "5", "-", "7", ",", " ", "1", "0">>,
              <<"5", "-", "3">>, <<"2", "5", "6">>,
              <<"0", "-", "2", "5", "5">>, <<"0", "-", "3", "0", "0">>,
              <<"1", "-", "2", "-", "3">>,
              <<" ", "7", " ", "-", " ", "9", " ", ",", ",", "1">>,
              <<"-", "5">>, [i \in 1..20 |-> "9"]}

NoParse == [err |-> FALSE, ids |-> <<>>]

ParseStart ==
    /\ cpc = "start"
    /\ cin \in ParseInputs
    /\ cframe = <<>>
    /\ cout = NoParse

ParseRun ==
    /\ cpc = "start"
    /\ cout' = ParseSlaveIDs(cin)
    /\ cpc' = "parsed"
    /\ UNCHANGED <<cin, cframe, exceptCodec>>

ParseInit == ParseStart /\ SendIdle /\ GwIdle /\ RouteIdle /\ SlaveIdle /\ ShutIdle /\ WireIdle

SpecParse == ParseInit /\ [][ParseRun]_vars

\* the tokens of an input: its comma-separated pieces without the blanks
\* around them, the empty ones left out
TokensOf(input) ==
    LET pieces == Split(input, ",")
    IN {TrimSpace(pieces[k]) : k \in DOMAIN pieces} \ {<<>>}

\* a decimal integer: digits, possibly after a plus sign
IsInteger(t) ==
    LET ds == IF t # <<>> /\ t[1] = "+" THEN Tail(t) ELSE t
    IN ds # <<>> /\ Len(ds) <= 9 /\ \A i \in 1..Len(ds) : ds[i] \in DOMAIN DigitValue

IntegerOf(t) == DecimalValue(IF t[1] = "+" THEN Tail(t) ELSE t)

\* the ways to read a token as a pair a-b
PairsOf(t) ==
    {<<TrimSpace(SubSeq(t, 1, i - 1)), TrimSpace(SubSeq(t, i + 1, Len(t)))>> :
        i \in {j \in 1..Len(t) : t[j] = "-"}}

ValidPairs(t) ==
    {p \in PairsOf(t) :
        /\ IsInteger(p[1]) /\ IsInteger(p[2])
        /\ IntegerOf(p[1]) <= IntegerOf(p[2])
        /\ IntegerOf(p[2]) <= 255}

ValidToken(t) ==
    \/ IsInteger(t) /\ IntegerOf(t) <= 255
    \/ ValidPairs(t) # {}

Denoted(t) ==
    IF IsInteger(t) THEN {IntegerOf(t)}
    ELSE UNION {IntegerOf(p[1])..IntegerOf(p[2]) : p \in ValidPairs(t)}

ShutStart ==
    /\ hukind \in {"tcp", "rtuOverTcp"}
    /\ hdkind \in {"tcp", "rtuOverTcp", "rtu"}
    /\ hctx = FALSE
    /\ hstart = "serving"
    /\ hlisten = TRUE
    /\ hserver = "accepting"
    /\ hconn = [k \in Conns |-> "none"]
    /\ hdown \in BOOLEAN
    /\ hmu = {}

ShutInit ==
    ShutStart /\ CodecIdle /\ SendIdle /\ GwIdle /\ RouteIdle /\ SlaveIdle /\ WireIdle

\* the parent signal of the gateway
ShutCancel ==
    /\ ~hctx
    /\ hctx' = TRUE
    /\ UNCHANGED <<hukind, hdkind, hstart, hlisten, hserver, hconn, hdown, hmu, exceptShut>>

\* Server.Start: Accept returns a connection, go handleConnection
ServerAccept(k) ==
    /\ hserver = "accepting"
    /\ hlisten
    /\ hconn[k] = "none"
    /\ hconn' = [hconn EXCEPT ![k] = "top"]
    /\ UNCHANGED <<hukind, hdkind, hctx, hstart, hlisten, hserver, hdown, hmu, exceptShut>>

\* Server.Start: go func() { <-ctx.Done(); s.Close() }()
ServerCloseListener ==
    /\ hctx
    /\ hlisten
    /\ hlisten' = FALSE
    /\ UNCHANGED <<hukind, hdkind, hctx, hstart, hserver, hconn, hdown, hmu, exceptShut>>

\* Server.Start: Accept fails on the closed listener, ctx is done, return nil
ServerReturn ==
    /\ hserver = "accepting"
    /\ ~hlisten
    /\ hserver' = "returned"
    /\ UNCHANGED <<hukind, hdkind, hctx, hstart, hlisten, hconn, hdown, hmu, exceptShut>>

\* handleConnection, top of the loop: return (and close the connection) when
\* ctx is done, else block in conn.Read
HandlerTop(k) ==
    /\ hconn[k] = "top"
    /\ hconn' = [hconn EXCEPT ![k] = IF hctx THEN "closed" ELSE "reading"]
    /\ UNCHANGED <<hukind, hdkind, hctx, hstart, hlisten, hserver, hdown, hmu, exceptShut>>

\* conn.Read returns a request of the master; the handler is called
HandlerRequest(k) ==
    /\ hconn[k] = "reading"
    /\ hconn' = [hconn EXCEPT ![k] = "dispatching"]
    /\ UNCHANGED <<hukind, hdkind, hctx, hstart, hlisten, hserver, hdown, hmu, exceptShut>>

\* conn.Read returns an error: the master has gone
HandlerEof(k) ==
    /\ hconn[k] = "reading"
    /\ hconn' = [hconn EXCEPT ![k] = "closed"]
    /\ UNCHANGED <<hukind, hdkind, hctx, hstart, hlisten, hserver, hdown, hmu, exceptShut>>

\* Gateway.handleRequest -> Send: mu.Lock()
HandlerLock(k) ==
    /\ hconn[k] = "dispatching"
    /\ hmu = {}
    /\ hmu' = {k}
    /\ hconn' = [hconn EXCEPT ![k] = "locked"]
    /\ UNCHANGED <<hukind, hdkind, hctx, hstart, hlisten, hserver, hdown, exceptShut>>

\* the rest of Send under the lock: connect (the serial port refuses when ctx
\* is done; the TCP-borne clients dial whenever they hold no connection),
\* the exchange, the deferred Unlock; then the handler is back at the top
HandlerExchange(k) ==
    /\ hconn[k] = "locked"
    /\ \E dialOk \in BOOLEAN, ioOk \in BOOLEAN :
         hdown' = IF hdkind = "rtu" /\ hctx THEN hdown
                  ELSE IF ~(hdown \/ dialOk) THEN FALSE
                  ELSE ioOk \/ ~ClosesOnIoError(hdkind)
    /\ hmu' = {}
    /\ hconn' = [hconn EXCEPT ![k] = "top"]
    /\ UNCHANGED <<hukind, hdkind, hctx, hstart, hlisten, hserver, exceptShut>>

\* Gateway.Start after <-ctx.Done(): us.Close() for the upstreams
StartCloseUpstreams ==
    /\ hstart = "serving"
    /\ hctx
    /\ hlisten' = FALSE
    /\ hstart' = "closedUpstreams"
    /\ UNCHANGED <<hukind, hdkind, hctx, hserver, hconn, hdown, hmu, exceptShut>>

\* ds.Close() for the downstreams: under the client's mutex
StartCloseDownstreams ==
    /\ hstart = "closedUpstreams"
    /\ hmu = {}
    /\ hdown' = FALSE
    /\ hstart' = "closedDownstreams"
    /\ UNCHANGED <<hukind, hdkind, hctx, hlisten, hserver, hconn, hmu, exceptShut>>

\* wg.Wait() for the upstreams' Start, return nil
StartReturn ==
    /\ hstart = "closedDownstreams"
    /\ hserver = "returned"
    /\ hstart' = "returned"
    /\ UNCHANGED <<hukind, hdkind, hctx, hlisten, hserver, hconn, hdown, hmu, exceptShut>>

\* the steps of the program, and those of its surroundings
ShutProgram ==
    \/ ServerCloseListener
    \/ ServerReturn
    \/ \E k \in Conns : HandlerTop(k)
    \/ \E k \in Conns : HandlerLock(k)
    \/ \E k \in Conns : HandlerExchange(k)
    \/ StartCloseUpstreams
    \/ StartCloseDownstreams
    \/ StartReturn

ShutNext ==
    \/ ShutCancel
    \/ \E k \in Conns : ServerAccept(k)
    \/ \E k \in Conns : HandlerRequest(k)
    \/ \E k \in Conns : HandlerEof(k)
    \/ ShutProgram

SpecShut == ShutInit /\ [][ShutNext]_vars

\* every goroutine of the program that can take a step takes it in the end;
\* the masters are free to stay silent
SpecShutLive == ShutInit /\ [][ShutNext]_vars /\ WF_vars(ShutProgram)

\* C18: shutdown proceeds in order: the upstreams stop accepting, the
\* in-flight exchanges end, and only then are the downstreams closed; once
\* Gateway.Start has returned no downstream holds an open connection or port.
C18_DownstreamsClosedAfterStart ==
    /\ hstart \in {"closedDownstreams", "returned"} =>
          \A k \in Conns : hconn[k] \notin {"dispatching", "locked"}
    /\ hstart = "returned" => ~hdown

\* C19: when the listener's context is cancelled it accepts no further
\* connections and every connection it accepted is closed, the ones whose
\* handler waits idle for the next request included.
C19_CancelClosesConnections ==
    hctx ~> (~hlisten /\ \A k \in Conns : hconn[k] \in {"none", "closed"})

(***************************************************************************)
(* The RTU server: Server.scanLoop reads the master's bytes from the       *)
(* serial port frame by frame and dispatches every frame that decodes to a *)
(* goroutine, which calls the handler and writes the response to the port. *)
(***************************************************************************)
MaxJobs == 2

\* what the master puts on the bus: request frames, alone, one after another
\* (a master that repeats its request after its own timeout), with a stray
\* byte behind; a frame of an unserved function code; a write-multiple
\* header cut short; a write-multiple header announcing 250 bytes
ScanStreams ==
    LET read == RtuEncode(1, 3, <<0, 10, 0, 2>>)
        coils == RtuEncode(1, 15, <<0, 10, 0, 2, 1, 3>>)
        regs == RtuEncode(1, 16, <<0, 10, 0, 1, 2, 202, 254>>)
        diag == RtuEncode(1, 8, <<0, 0, 18, 52>>)
    IN {read, read \o read, coils \o read, regs, read \o <<0>>, diag,
        <<1, 16, 0, 10>>, <<1, 16, 0, 10, 0, 125, 250, 0, 1>>}

ScanStart ==
    /\ xwire \in ScanStreams
    /\ xbuf = <<>>
    /\ xpc = "top"
    /\ xhdr = <<>>
    /\ xexp = 0
    /\ xjobs = 0
    /\ xwrote = "none"

\* every part of the program outside the transports' byte streams at rest
RestIdle == CodecIdle /\ SendIdle /\ GwIdle /\ RouteIdle /\ SlaveIdle /\ ShutIdle

ScanInit == ScanStart /\ RestIdle /\ StreamIdle /\ MasterIdle /\ RespIdle /\ LateIdle

\* port.Read(buf[:1]) at the top of the loop; without a byte the read times
\* out and the loop comes round again
ScanFirst ==
    /\ xpc = "top"
    /\ xwire # <<>>
    /\ xbuf' = <<Head(xwire)>>
    /\ xwire' = Tail(xwire)
    /\ xpc' = "header"
    /\ UNCHANGED <<xhdr, xexp, xjobs, xwrote, exceptScan>>

\* one port.Read of the header loop or of the remaining-bytes loop: n of the
\* bytes on the wire, up to the end of the slice
ScanRead(n) ==
    /\ xpc \in {"header", "body"}
    /\ LET need == IF xpc = "header" THEN 7 ELSE xexp IN
         /\ n >= 1
         /\ n <= need - Len(xbuf)
         /\ n <= Len(xwire)
         /\ xbuf' = xbuf \o SubSeq(xwire, 1, n)
         /\ xwire' = SubSeq(xwire, n + 1, Len(xwire))
         /\ xpc' = IF Len(xbuf) + n < need THEN xpc
                   ELSE IF xpc = "header" THEN "length" ELSE "decode"
    /\ UNCHANGED <<xhdr, xexp, xjobs, xwrote, exceptScan>>

\* a port.Read of either loop that returns the timeout error: break
ScanTimeout ==
    /\ xpc \in {"header", "body"}
    /\ xpc' = IF xpc = "header" THEN "length" ELSE "decode"
    /\ UNCHANGED <<xwire, xbuf, xhdr, xexp, xjobs, xwrote, exceptScan>>

\* after the header loop: fewer than two bytes, or an error of
\* CalculateRequestLength, abandon the frame; a length above cap(buf) makes
\* the slice buf[current:expectedLen] of the next loop panic
ScanLength ==
    /\ xpc = "length"
    /\ IF Len(xbuf) < 2
       THEN /\ xpc' = "top"
            /\ xbuf' = <<>>
            /\ UNCHANGED <<xhdr, xexp>>
       ELSE LET expectedLen == CalculateRequestLength(xbuf[2], xbuf) IN
            /\ xhdr' = xbuf
            /\ xexp' = expectedLen
            /\ xpc' = IF expectedLen = 0 THEN "top"
                      ELSE IF expectedLen > rtuMaxSize THEN "panic" ELSE "body"
            /\ xbuf' = IF expectedLen = 0 THEN <<>> ELSE xbuf
    /\ UNCHANGED <<xwire, xjobs, xwrote, exceptScan>>

\* after the remaining-bytes loop: a frame of the expected length that
\* decodes is handed to a new goroutine, anything else is abandoned
ScanDecode ==
    /\ xpc = "decode"
    /\ xjobs < MaxJobs
    /\ xjobs' = IF Len(xbuf) = xexp /\ RtuDecode(xbuf).ok THEN xjobs + 1 ELSE xjobs
    /\ xbuf' = <<>>
    /\ xpc' = "top"
    /\ UNCHANGED <<xwire, xhdr, xexp, xwrote, exceptScan>>

\* a dispatch goroutine: the handler has returned, port.Write(respBuf)
JobWrite ==
    /\ xjobs > 0
    /\ xjobs' = xjobs - 1
    /\ xwrote' = IF xpc \in {"header", "length", "body"} THEN "mid" ELSE "between"
    /\ UNCHANGED <<xwire, xbuf, xpc, xhdr, xexp, exceptScan>>

ScanNext ==
    \/ ScanFirst
    \/ \E n \in 1..rtuMaxSize : ScanRead(n)
    \/ ScanTimeout
    \/ ScanLength
    \/ ScanDecode
    \/ JobWrite

SpecScan == ScanInit /\ [][ScanNext]_vars

\* C22: the length the request scanner expects is a function of the function
\* code: 8 for 0x01..0x06; 7 + byte-count + 2 for 0x0F and 0x10, the byte
\* count being the header's byte at index 6, and an error when the header
\* has fewer than 7 bytes; an error for every other function code.  After an
\* error the frame is abandoned: the scanner reads no more of it.
C22_RequestLengthFromFunctionCode ==
    xhdr # <<>> =>
        LET fc == xhdr[2] IN
        /\ fc \in 1..6 => xexp = 8
        /\ (fc \in {15, 16} /\ Len(xhdr) >= 7) => xexp = 7 + xhdr[6 + 1] + 2
        /\ (fc \in {15, 16} /\ Len(xhdr) < 7) => xexp = 0
        /\ fc \notin (1..6) \cup {15, 16} => xexp = 0
        /\ xexp = 0 => xpc \notin {"body", "decode", "panic"}

\* the scanner reads on to 11 bytes for a write of one register
C22_Witness ==
    /\ xpc = "body"
    /\ xhdr = <<1, 16, 0, 10, 0, 1, 2>>
    /\ xexp = 11

\* the scanner abandoned a frame of function code 0x08
C22_WitnessAbandoned ==
    /\ xpc = "top"
    /\ xhdr # <<>>
    /\ xhdr[2] = 8
    /\ xexp = 0

\* C26: no response is written to the serial port while the scanner is in
\* the middle of a request frame, its first byte read and its last byte not
\* yet read.
C26_NoWriteWhileReceiving == xwrote # "mid"

\* C36: the length the request scanner goes on to read never exceeds the
\* 256 bytes of the largest RTU frame and of the receive buffer: a header that
\* announces more is abandoned, and no read is tried beyond the buffer.
C36_RequestLengthWithinBuffer ==
    /\ xpc \in {"body", "decode", "panic"} => xexp <= rtuMaxSize
    /\ xpc # "panic"

(***************************************************************************)
(* The TCP server: Server.handleConnection over the byte stream of one     *)
(* connection.  The master writes well-formed MBAP frames one after        *)
(* another; the network delivers the stream to conn.Read in pieces of any  *)
(* size.                                                                   *)
(***************************************************************************)
\* a master's request frame: the length field counts the unit-id and the PDU
MasterFrame(tid, unit, fc, data) == TcpEncode(tid, 0, 2 + Len(data), unit, fc, data)

StreamSamples ==
    LET read == MasterFrame(1, 1, 3, <<0, 10, 0, 2>>)
        coil == MasterFrame(2, 1, 5, <<0, 10, 255, 0>>)
        regs == MasterFrame(3, 2, 16, <<0, 10, 0, 1, 2, 202, 254>>)
    IN {read, read \o coil, regs, regs \o read}

StreamStart ==
    /\ tsent \in StreamSamples
    /\ twire = tsent
    /\ tdisp = <<>>
    /\ topen = TRUE

StreamInit == StreamStart /\ RestIdle /\ ScanIdle /\ MasterIdle /\ RespIdle /\ LateIdle

\* one turn of handleConnection's loop: conn.Read(buf) returns the n bytes
\* that have arrived, at most len(buf) = 261; more than 260 closes the
\* connection; what Decode accepts is handed to the handler
ServerRead(n) ==
    /\ topen
    /\ n >= 1
    /\ n <= Len(twire)
    /\ n <= tcpMaxSize + 1
    /\ twire' = SubSeq(twire, n + 1, Len(twire))
    /\ LET adu == TcpDecode(SubSeq(twire, 1, n)) IN
         IF n > tcpMaxSize THEN topen' = FALSE /\ tdisp' = tdisp
         ELSE /\ topen' = topen
              /\ tdisp' = IF adu.ok
                          THEN Append(tdisp, [tid |-> adu.tid, unit |-> adu.unit,
                                              fc |-> adu.fc, data |-> adu.data])
                          ELSE tdisp
    /\ UNCHANGED <<tsent, exceptStream>>

\* conn.Read returns io.EOF once the master has closed and all is read
ServerEof ==
    /\ topen
    /\ twire = <<>>
    /\ topen' = FALSE
    /\ UNCHANGED <<tsent, twire, tdisp, exceptStream>>

StreamNext == (\E n \in 1..(tcpMaxSize + 1) : ServerRead(n)) \/ ServerEof

SpecStream == StreamInit /\ [][StreamNext]_vars

\* the requests of a stream as its MBAP headers delimit them: 7 header bytes,
\* then the length field's count less the unit-id
RECURSIVE FramesOf(_)
FramesOf(stream) ==
    IF Len(stream) < 7 THEN <<>>
    ELSE LET length == BigEndian16(stream[5], stream[6])
             size == 6 + length
         IN IF length < 2 \/ Len(stream) < size THEN <<>>
            ELSE <<[tid |-> BigEndian16(stream[1], stream[2]), unit |-> stream[7],
                    fc |-> stream[8], data |-> SubSeq(stream, 9, size)]>>
                 \o FramesOf(SubSeq(stream, size + 1, Len(stream)))

\* C25: however the stream is cut into reads, the requests handed to the
\* handler are the frames of the stream in order, each once and with its own
\* PDU bytes: what has been dispatched is the frames of the bytes read so far.
C25_FramesDelimitedByHeader ==
    LET consumed == SubSeq(tsent, 1, Len(tsent) - Len(twire)) IN
    /\ \E k \in 0..Len(FramesOf(tsent)) : tdisp = SubSeq(FramesOf(tsent), 1, k)
    /\ Len(FramesOf(consumed)) <= Len(tdisp)
    /\ twire = <<>> => tdisp = FramesOf(tsent)

(***************************************************************************)
(* The RTU master: rtuSerialTransporter.Send and the idle timer of its     *)
(* serial port.  Time is in seconds; the port's read timeout is configured *)
(* as 5 s, so an exchange lasts between no time and 5 s.                   *)
(***************************************************************************)
serialTimeout == 5
serialIdleTimeout == 60
MaxTime == 130

MasterStart ==
    /\ mnow = 0
    /\ mpc = "idle"
    /\ mport = FALSE
    /\ mlast = 0
    /\ mtimer = -1
    /\ mfired = FALSE
    /\ mend = -1
    /\ mquiet = TRUE
    /\ mwrote = "none"
    /\ mclosed = -1

MasterInit == MasterStart /\ RestIdle /\ ScanIdle /\ StreamIdle /\ RespIdle /\ LateIdle

\* Send up to its wait for the response: Lock, connect (which opens the port
\* when it is nil), lastActivity = now, startCloseTimer (AfterFunc or Reset),
\* port.Write.  Nothing waits between the Lock and the Write.
MasterSendWrite ==
    /\ mpc = "idle"
    /\ mpc' = "exchange"
    /\ mport' = TRUE
    /\ mlast' = mnow
    /\ mtimer' = mnow + serialIdleTimeout
    /\ mwrote' = IF mquiet THEN "quiet" ELSE "early"
    /\ mquiet' = FALSE
    /\ UNCHANGED <<mnow, mfired, mend, mclosed, exceptMaster>>

\* the rest of Send: the pre-read delay and ReadResponse are over, with the
\* response's last byte just read or with the timeout error; Unlock
MasterSendReturn(response) ==
    /\ mpc = "exchange"
    /\ ~response => mnow - mlast >= serialTimeout
    /\ mpc' = "idle"
    /\ mend' = mnow
    /\ mquiet' = IF response THEN FALSE ELSE mquiet
    /\ UNCHANGED <<mnow, mport, mlast, mtimer, mfired, mwrote, mclosed, exceptMaster>>

\* d seconds pass: not beyond the moment the timer fires, not while a
\* closeIdle can run, and not beyond the read timeout of an exchange
MasterTick(d) ==
    /\ mpc \in {"idle", "exchange"}
    /\ mnow + d <= MaxTime
    /\ mtimer # -1 => mnow + d <= mtimer
    /\ ~(mfired /\ mpc = "idle")
    /\ mpc = "exchange" => mnow + d - mlast <= serialTimeout
    /\ mnow' = mnow + d
    /\ mquiet' = TRUE
    /\ UNCHANGED <<mpc, mport, mlast, mtimer, mfired, mend, mwrote, mclosed, exceptMaster>>

\* closeTimer fires and calls closeIdle in a goroutine of its own
MasterTimerFires ==
    /\ mtimer # -1
    /\ mnow >= mtimer
    /\ mtimer' = -1
    /\ mfired' = TRUE
    /\ UNCHANGED <<mnow, mpc, mport, mlast, mend, mquiet, mwrote, mclosed, exceptMaster>>

\* closeIdle: with the mutex, close the port when lastActivity lies
\* IdleTimeout or more in the past
MasterCloseIdle ==
    /\ mfired
    /\ mpc = "idle"
    /\ mfired' = FALSE
    /\ IF mnow - mlast >= serialIdleTimeout
       THEN mport' = FALSE /\ mclosed' = IF mport THEN mnow - mend ELSE mclosed
       ELSE UNCHANGED <<mport, mclosed>>
    /\ UNCHANGED <<mnow, mpc, mlast, mtimer, mend, mquiet, mwrote, exceptMaster>>

MasterNext ==
    \/ MasterSendWrite
    \/ \E response \in BOOLEAN : MasterSendReturn(response)
    \/ \E d \in {serialTimeout, serialIdleTimeout - serialTimeout, serialIdleTimeout} :
           MasterTick(d)
    \/ MasterTimerFires
    \/ MasterCloseIdle

SpecMaster == MasterInit /\ [][MasterNext]_vars

\* C27: a Send waits the inter-frame delay before it writes its request, so
\* no request is written before the bus has been silent for the inter-frame
\* delay since the last frame of the preceding exchange.
C27_WriteAfterInterFrameDelay == mwrote # "early"

\* C28: the idle timer closes the port only when the idle timeout has passed
\* since the last exchange, and never during an exchange; the port does not
\* stay open beyond the idle timeout after the last exchange; a Send after an
\* idle close has the port open again.
C28_IdleCloseAfterTimeout ==
    /\ mclosed # -1 => mclosed >= serialIdleTimeout
    /\ mpc = "exchange" => mport
    /\ (mport /\ mpc = "idle" /\ mend # -1) => mnow - mend <= serialIdleTimeout

(***************************************************************************)
(* The response scanner: ReadResponse called by the RTU master's Send with *)
(* the serial port as its reader and now + Config.Timeout as its deadline. *)
(* The port's reads carry the same Config.Timeout: a read that gets no     *)
(* byte returns an error that long after it began.  Time is in ticks.      *)
(***************************************************************************)
RespTimeout == 2

\* the scanner's locals after a step, and what the step returns ("" to go on)
Scanned(state, data, toRead, crcCount, ret) ==
    [scan |-> [state |-> state, data |-> data, toRead |-> toRead, crcCount |-> crcCount],
     ret |-> ret]

\* a scanner that keeps the bytes it meets before the slave-id and takes the
\* two bytes after the function code for the CRC
ReadResponseStepKeepNoise(s, b, slaveID, functionCode) ==
    LET data == Append(s.data, b) IN
    IF s.state = "stateSlaveID"
    THEN Scanned(IF b = slaveID THEN "stateFunctionCode" ELSE s.state,
                 data, s.toRead, s.crcCount, "")
    ELSE IF s.state = "stateCRC"
    THEN Scanned(s.state, data, s.toRead, s.crcCount + 1,
                 IF s.crcCount + 1 = 2 THEN "frame" ELSE "")
    ELSE Scanned("stateCRC", data, 0, s.crcCount, "")

\* the switch of ReadResponse on the byte just read
ReadResponseStep(s, b, slaveID, functionCode) ==
    LET data == Append(s.data, b) IN
    IF s.state = "stateSlaveID"
    THEN IF b = slaveID
         THEN Scanned("stateFunctionCode", data, s.toRead, s.crcCount, "")
         ELSE Scanned(s.state, s.data, s.toRead, s.crcCount, "")
    ELSE IF s.state = "stateFunctionCode"
    THEN IF b = functionCode
         THEN IF functionCode \in {2, 1, 3, 4, 23, 24}
              THEN Scanned("stateReadLength", data, s.toRead, s.crcCount, "")
              ELSE IF functionCode \in {5, 6, 16, 15}
              THEN Scanned("stateReadPayload", data, 4, s.crcCount, "")
              ELSE IF functionCode = 22
              THEN Scanned("stateReadPayload", data, 6, s.crcCount, "")
              ELSE Scanned(s.state, s.data, s.toRead, s.crcCount, "notHandled")
         ELSE IF b = (functionCode + 128) % 256
         THEN Scanned("stateReadPayload", data, 1, s.crcCount, "")
         ELSE Scanned(s.state, s.data, s.toRead, s.crcCount, "")
    ELSE IF s.state = "stateReadLength"
    THEN IF b > rtuMaxSize - 5 \/ b = 0
         THEN Scanned(s.state, s.data, s.toRead, s.crcCount, "invalidLength")
         ELSE Scanned("stateReadPayload", data, b, s.crcCount, "")
    ELSE IF s.state = "stateReadPayload"
    THEN Scanned(IF (s.toRead + 255) % 256 = 0 THEN "stateCRC" ELSE s.state,
                 data, (s.toRead + 255) % 256, s.crcCount, "")
    ELSE Scanned(s.state, data, s.toRead, s.crcCount + 1,
                 IF s.crcCount + 1 = 2 THEN "frame" ELSE "")

\* noise on the bus ahead of the response: bytes other than slave-id 1
NoiseSamples == {<<>>, <<0>>, <<3, 0>>, <<255, 3, 131>>}

\* expected function codes with well-formed responses to them from slave 1:
\* the normal response of the function code's shape and an exception
ResponseSamples ==
    {[fc |-> 3, frame |-> RtuEncode(1, 3, <<2, 170, 187>>)],
     [fc |-> 3, frame |-> RtuEncode(1, 131, <<2>>)],
     [fc |-> 1, frame |-> RtuEncode(1, 1, <<1, 1>>)],
     [fc |-> 5, frame |-> RtuEncode(1, 5, <<0, 10, 255, 0>>)],
     [fc |-> 16, frame |-> RtuEncode(1, 16, <<0, 1, 0, 1>>)],
     [fc |-> 16, frame |-> RtuEncode(1, 144, <<1>>)],
     [fc |-> 22, frame |-> RtuEncode(1, 22, <<0, 4, 0, 242, 0, 37>>)],
     [fc |-> 23, frame |-> RtuEncode(1, 23, <<2, 1, 1>>)]}

\* what arrives when the slave sends no well-formed response: nothing, noise
\* only, a response cut short, a response with length 0
BrokenStreams == {<<>>, <<0, 3>>, <<1, 3, 2, 170>>, <<1, 3, 0, 0, 0>>}

RespStart ==
    /\ \/ \E r \in ResponseSamples, noise \in NoiseSamples :
             /\ qexp = [slave |-> 1, fc |-> r.fc]
             /\ qframe = r.frame
             /\ qin = noise \o r.frame
       \/ /\ qexp = [slave |-> 1, fc |-> 3]
          /\ qframe = <<>>
          /\ qin \in BrokenStreams
    /\ qpc = "top"
    /\ qscan = NoScan
    /\ qres = "none"
    /\ qnow = 0
    /\ qreadAt = 0

RespInit == RespStart /\ RestIdle /\ ScanIdle /\ StreamIdle /\ MasterIdle /\ LateIdle

\* the top of the loop: the timeout error after the deadline, else a read
RespCheck ==
    /\ qpc = "top"
    /\ IF qnow > RespTimeout
       THEN qpc' = "done" /\ qres' = "timeout" /\ qreadAt' = qreadAt
       ELSE qpc' = "read" /\ qres' = qres /\ qreadAt' = qnow
    /\ UNCHANGED <<qexp, qframe, qin, qscan, qnow, exceptResp>>

\* io.ReadAtLeast returns with the next byte, and the switch runs on it
RespByte ==
    /\ qpc = "read"
    /\ qin # <<>>
    /\ qin' = Tail(qin)
    /\ LET step == ReadResponseStep(qscan, Head(qin), qexp.slave, qexp.fc) IN
         /\ qscan' = step.scan
         /\ qres' = IF step.ret = "" THEN qres ELSE step.ret
         /\ qpc' = IF step.ret = "" THEN "top" ELSE "done"
    /\ UNCHANGED <<qexp, qframe, qnow, qreadAt, exceptResp>>

\* io.ReadAtLeast returns the port's timeout error: no byte came for
\* Config.Timeout
RespReadError ==
    /\ qpc = "read"
    /\ qnow - qreadAt >= RespTimeout
    /\ qpc' = "done"
    /\ qres' = "readError"
    /\ UNCHANGED <<qexp, qframe, qin, qscan, qnow, qreadAt, exceptResp>>

\* a tick passes while the scanner is inside a read without a byte
RespTick ==
    /\ qpc = "read"
    /\ qnow - qreadAt < RespTimeout
    /\ qnow' = qnow + 1
    /\ UNCHANGED <<qexp, qframe, qin, qpc, qscan, qres, qreadAt, exceptResp>>

RespNext == RespCheck \/ RespByte \/ RespReadError \/ RespTick

SpecResp == RespInit /\ [][RespNext]_vars

\* C29: the scanner has ended by the time the deadline has passed: it is not
\* inside a read (nor scanning on) after the deadline, and when it ends
\* without a frame after the deadline it is with the timeout error.
C29_ScannerEndsAtDeadline ==
    /\ qpc \in {"top", "read"} => qnow <= RespTimeout
    /\ (qpc = "done" /\ qnow > RespTimeout) => qres \in {"frame", "timeout"}

\* C30: of a stream of bytes other than the expected slave-id followed by a
\* well-formed response frame, the scanner returns exactly the frame
\* (slave-id, function code or function code + 0x80, payload, two CRC
\* bytes) whenever the reader delivers the bytes before the deadline and
\* without an error.
C30_ScannerReturnsFrame ==
    (qframe # <<>> /\ qpc = "done" /\ qres \notin {"timeout", "readError"}) =>
        /\ qres = "frame"
        /\ qscan.data = qframe
        /\ RtuDecode(qscan.data).ok
        /\ qin = <<>>

\* the frame of a read response was returned from behind three noise bytes
C30_Witness ==
    /\ qpc = "done"
    /\ qres = "frame"
    /\ qexp.fc = 3
    /\ qframe = RtuEncode(1, 3, <<2, 170, 187>>)
    /\ qscan.data = qframe

\* an exception frame was returned from behind noise
C30_WitnessException ==
    /\ qpc = "done"
    /\ qres = "frame"
    /\ qexp.fc = 16
    /\ qscan.data = RtuEncode(1, 144, <<1>>)

(***************************************************************************)
(* The RTU master's exchange for one request PDU: Client.Send wraps the    *)
(* PDU into an RTU frame, rtuSerialTransporter.Send writes it, predicts    *)
(* the length of the response for the delay before the read, and reads.    *)
(***************************************************************************)
\* the PDUs a TCP master can have dispatched: any function code, with no
\* data bytes, a few, or the 252 the largest MBAP frame carries
PredictFcSamples == {1, 2, 3, 4, 5, 15, 16, 22, 23, 24, 43, 65}

PredictDataSamples == SeqsUpTo({0, 255}, 4) \cup {[i \in 1..(tcpMaxSize - 8) |-> 0]}

\* CalculateResponseLength: binary.BigEndian.Uint16(adu[4:]) needs the bytes
\* at indices 4 and 5 and panics on a frame that has fewer than six
CalculateResponseLength(adu) ==
    LET fc == adu[2] IN
    IF fc \in {1, 2}
    THEN IF Len(adu) < 6 THEN [panic |-> TRUE, length |-> 0]
         ELSE LET count == BigEndian16(adu[5], adu[6]) IN
              [panic |-> FALSE,
               length |-> rtuMinSize + 1 + (count \div 8) + (IF count % 8 # 0 THEN 1 ELSE 0)]
    ELSE IF fc \in {3, 4, 23}
    THEN IF Len(adu) < 6 THEN [panic |-> TRUE, length |-> 0]
         ELSE [panic |-> FALSE,
               length |-> rtuMinSize + 1 + BigEndian16(adu[5], adu[6]) * 2]
    ELSE IF fc \in {5, 6, 15, 16} THEN [panic |-> FALSE, length |-> rtuMinSize + 4]
    ELSE IF fc = 22 THEN [panic |-> FALSE, length |-> rtuMinSize + 6]
    ELSE [panic |-> FALSE, length |-> rtuMinSize]

\* ApplicationDataUnit.Verify of the RTU packet: the slave address must match
RtuVerify(reqSlave, resp) ==
    /\ Len(resp.data) + 4 >= rtuMinSize
    /\ resp.slave = reqSlave

PredictStart ==
    /\ cpc = "start"
    /\ cin \in [slave : {1}, fc : PredictFcSamples, data : PredictDataSamples]
    /\ cframe = <<>>
    /\ cout = NoAdu

PredictInit == PredictStart /\ SendIdle /\ GwIdle /\ RouteIdle /\ SlaveIdle /\ ShutIdle /\ WireIdle

\* rtuSerialTransporter.Send up to the read of the response: Lock, connect,
\* port.Write, CalculateResponseLength, the delay (or the end of the caller's
\* context).  A panic in the predictor unwinds Send; nothing recovers it.
TransporterSend(writeOk, ctxDone) ==
    /\ cpc = "encoded"
    /\ cpc' = IF ~writeOk THEN "failed"
              ELSE IF CalculateResponseLength(cframe).panic THEN "panic"
              ELSE IF ctxDone THEN "failed"
              ELSE "reading"
    /\ UNCHANGED <<cin, cframe, cout, exceptCodec>>

\* what ReadResponse may return for the request: the slave's response, the
\* response of another slave, or (the empty sequence) its error
PredictResponses ==
    {RtuEncode(cin.slave, cin.fc, <<2, 0, 7>>), RtuEncode(cin.slave + 1, cin.fc, <<2, 0, 7>>), <<>>}

\* the rest of the exchange: ReadResponse, Unlock, then Client.Send's Decode
\* and Verify of the response
TransporterRead(response) ==
    /\ cpc = "reading"
    /\ LET adu == RtuDecode(response) IN
         IF response = <<>> \/ ~adu.ok \/ ~RtuVerify(cin.slave, adu)
         THEN cpc' = "failed" /\ cout' = NoAdu
         ELSE cpc' = "returned" /\ cout' = adu
    /\ UNCHANGED <<cin, cframe, exceptCodec>>

PredictNext ==
    \/ CodecEncode
    \/ \E writeOk \in BOOLEAN, ctxDone \in BOOLEAN : TransporterSend(writeOk, ctxDone)
    \/ \E response \in PredictResponses : TransporterRead(response)

SpecPredict == PredictInit /\ [][PredictNext]_vars

\* C37: for every request PDU an upstream can hand to the dispatcher, read
\* requests of fewer than four data bytes included, the RTU master's Send
\* ends by returning a response or an error; the response-length predictor
\* does not index the request frame beyond its end.
C37_SendReturnsForEveryRequest ==
    /\ cpc # "panic"
    /\ cpc = "encoded" => ~CalculateResponseLength(cframe).panic

(***************************************************************************)
(* Startup of the local downstream: NewClient picks the storage the        *)
(* configuration names, loads the model from it, and hands model and       *)
(* storage to the local slave, which then serves requests.                 *)
(***************************************************************************)
PersistenceTypes == {"file", "mmap", "memory"}

\* a backing file of an earlier run, in which register 10 held 0xCAFE
EarlierFile(e) == Process(Pdu(6, <<0, 10, 202, 254>>), <<>>, e).data

BootStart ==
    /\ bcfg \in [type : PersistenceTypes, pathOk : BOOLEAN]
    /\ mendian \in {"little", "big"}
    /\ fdata \in {<<>>, EarlierFile(mendian)}
    /\ mdata = <<>>
    /\ sbackend = "none"
    /\ sproc = "stopped"
    /\ srestarts = 0
    /\ sprom = NoPromise
    /\ lreq = NoPdu
    /\ lresp = NoResponse

BootInit ==
    /\ BootStart
    /\ CodecIdle /\ SendIdle /\ GwIdle /\ RouteIdle /\ ShutIdle
    /\ ScanIdle /\ StreamIdle /\ MasterIdle /\ RespIdle
    /\ LockIdle /\ QueueIdle

\* FileStorage.Load / MmapStorage.Load: OpenFile with O_CREATE fails on a
\* path that cannot be opened, and Load returns no model and an error
LoadFails(cfg) == cfg.type \in {"file", "mmap"} /\ ~cfg.pathOk

\* NewClient: the storage of the configured type; when its Load fails and
\* returns no model, memory storage and its fresh model take its place
NewClient ==
    /\ sproc = "stopped"
    /\ sbackend' = IF bcfg.type = "memory" \/ LoadFails(bcfg) THEN "none" ELSE bcfg.type
    /\ mdata' = IF sbackend' = "none" THEN <<>> ELSE fdata
    /\ sproc' = "running"
    /\ UNCHANGED <<mendian, lreq, lresp, fdata, srestarts, sprom, exceptSlave>>

BootNext == NewClient \/ \E req \in StoreRequests : SlaveProcess(req)

SpecBoot == BootInit /\ [][BootNext]_vars

\* C33: when the configured persistence backing cannot be opened or loaded,
\* startup fails; the local slave never serves requests on a backend other
\* than the configured one.
C33_BadPersistencePathIsFatal ==
    sproc = "running" =>
        /\ ~LoadFails(bcfg)
        /\ sbackend = (IF bcfg.type = "memory" THEN "none" ELSE bcfg.type)

(***************************************************************************)
(* The DataModel under concurrent calls: goroutines call                   *)
(* ReadHoldingRegisters and WriteMultipleRegisters on one model; each call *)
(* takes the model's RWMutex, runs its loop one register at a time, and    *)
(* releases the mutex on return.                                           *)
(***************************************************************************)
\* every subsystem of the transports and of the gateway at rest
EarlyIdle ==
    /\ CodecIdle /\ SendIdle /\ GwIdle /\ RouteIdle /\ SlaveIdle /\ ShutIdle
    /\ ScanIdle /\ StreamIdle /\ MasterIdle /\ RespIdle

ModelCall(kind, address, quantity, data) ==
    [kind |-> kind, address |-> address, quantity |-> quantity, data |-> data]

\* two overlapping writes, a read over both, and a write the model refuses
ModelCalls ==
    {ModelCall("write", 10, 3, <<0, 1, 0, 2, 0, 3>>),
     ModelCall("write", 11, 2, <<202, 254, 202, 254>>),
     ModelCall("read", 10, 3, <<>>),
     ModelCall("write", MaxAddress, 2, <<0, 1, 0, 2>>)}

\* the byte order of the host
LockHost == "little"

\* a lock that admits a reader at any time
ModelCanRLockAlways(mu) == TRUE

\* m.mu.RLock() returns while no writer holds the mutex
ModelCanRLock(mu) == mu.writer = 0

\* m.mu.Lock() returns while nobody holds the mutex
ModelCanLock(mu) == mu.writer = 0 /\ mu.readers = {}

LockStart ==
    /\ kregs = <<>>
    /\ kmu = [writer |-> 0, readers |-> {}]
    /\ kpc = [t \in Workers |-> "idle"]
    /\ kop \in [Workers -> ModelCalls]
    /\ ki = [t \in Workers |-> 0]
    /\ kres = [t \in Workers |-> <<>>]
    /\ ksnap = [t \in Workers |-> <<>>]
    /\ klog = <<>>

LockInit == LockStart /\ EarlyIdle /\ BootIdle /\ QueueIdle

\* a goroutine enters its call and blocks on the mutex
ModelEnter(t) ==
    /\ kpc[t] = "idle"
    /\ kpc' = [kpc EXCEPT ![t] = "lock"]
    /\ UNCHANGED <<kregs, kmu, kop, ki, kres, ksnap, klog, exceptLock>>

\* RLock or Lock returns; validateRange and the length check follow
ModelAcquire(t) ==
    /\ kpc[t] = "lock"
    /\ IF kop[t].kind = "read"
       THEN /\ ModelCanRLock(kmu)
            /\ kmu' = [kmu EXCEPT !.readers = @ \cup {t}]
       ELSE /\ ModelCanLock(kmu)
            /\ kmu' = [kmu EXCEPT !.writer = t]
    /\ ksnap' = [ksnap EXCEPT ![t] = kregs]
    /\ kpc' = [kpc EXCEPT ![t] =
                  IF ~ValidateRange(kop[t].address, kop[t].quantity) THEN "unlock"
                  ELSE IF kop[t].kind = "write" /\ Len(kop[t].data) < kop[t].quantity * 2
                       THEN "unlock"
                  ELSE "loop"]
    /\ UNCHANGED <<kregs, kop, ki, kres, klog, exceptLock>>

\* one turn of the loop: a register is stored, or read into the result
ModelStep(t) ==
    /\ kpc[t] = "loop"
    /\ LET i == ki[t]
           a == kop[t].address + i
       IN IF kop[t].kind = "write"
          THEN /\ kregs' = SetHolding(kregs, LockHost, a,
                                      BigEndian16(kop[t].data[2 * i + 1], kop[t].data[2 * i + 2]))
               /\ klog' = Append(klog, t)
               /\ kres' = kres
          ELSE /\ kres' = [kres EXCEPT ![t] =
                              @ \o <<HoldingAt(kregs, LockHost, a) \div 256,
                                     HoldingAt(kregs, LockHost, a) % 256>>]
               /\ UNCHANGED <<kregs, klog>>
    /\ ki' = [ki EXCEPT ![t] = @ + 1]
    /\ kpc' = [kpc EXCEPT ![t] = IF ki[t] + 1 = kop[t].quantity THEN "unlock" ELSE "loop"]
    /\ UNCHANGED <<kmu, kop, ksnap, exceptLock>>

\* the deferred RUnlock or Unlock; the call returns its result or its error
ModelReturn(t) ==
    /\ kpc[t] = "unlock"
    /\ kmu' = IF kop[t].kind = "read" THEN [kmu EXCEPT !.readers = @ \ {t}]
              ELSE [kmu EXCEPT !.writer = 0]
    /\ kpc' = [kpc EXCEPT ![t] = IF ki[t] = kop[t].quantity THEN "done" ELSE "failed"]
    /\ UNCHANGED <<kregs, kop, ki, kres, ksnap, klog, exceptLock>>

LockNext ==
    \/ \E t \in Workers : ModelEnter(t)
    \/ \E t \in Workers : ModelAcquire(t)
    \/ \E t \in Workers : ModelStep(t)
    \/ \E t \in Workers : ModelReturn(t)

SpecLock == LockInit /\ [][LockNext]_vars

\* the goroutines inside a loop that has stored some but not all of its
\* registers
MidWrite == {u \in Workers : kop[u].kind = "write" /\ kpc[u] = "loop" /\ ki[u] > 0}

\* the goroutines that hold the mutex for a read
Reading == {t \in Workers : kop[t].kind = "read" /\ kpc[t] \in {"loop", "unlock"}}

\* the stores of one call lie next to one another in the log
NoInterleave(log) ==
    \A i, j, k \in DOMAIN log : (i < j /\ j < k /\ log[i] = log[k]) => log[j] = log[i]

\* C31: DataModel operations are atomic with respect to each other: a read
\* that runs concurrently with a write-multiple holds the model while no
\* write is partially applied and returns the registers as they were when it
\* took the lock, and the stores of two concurrent writes do not interleave.
C31_ModelOperationsAtomic ==
    /\ Reading # {} => MidWrite = {}
    /\ \A t \in Reading : kregs = ksnap[t]
    /\ \A t \in Workers :
           (kop[t].kind = "read" /\ kpc[t] = "done") =>
               kres[t] = ReadHoldingRegisters(ksnap[t], LockHost, kop[t].address,
                                              kop[t].quantity).bytes
    /\ NoInterleave(klog)

\* a read is halfway through its loop after one write-multiple has been
\* applied in full, while another write-multiple waits for the mutex
C31_Witness ==
    \E t, u \in Workers :
        /\ kop[t].kind = "read" /\ kpc[t] = "loop" /\ ki[t] = 1
        /\ kop[u].kind = "write" /\ kpc[u] = "lock"
        /\ Len(klog) = 2
        /\ kres[t] = <<0, 0>>

(***************************************************************************)
(* The queue-based gateway: each connection handler decodes a request,     *)
(* places it on requestChan with a response channel of its own and waits   *)
(* on that channel; one worker takes the requests in order and runs each   *)
(* exchange with the RTU device.                                           *)
(***************************************************************************)
requestChanSize == 100

\* what a master writes: a read, a read without its address and quantity, a
\* register write, and five bytes that are no frame
QueueFrames ==
    {MasterFrame(1, 1, 3, <<0, 10, 0, 2>>), MasterFrame(2, 1, 3, <<>>),
     MasterFrame(3, 1, 6, <<0, 10, 202, 254>>), <<0, 4, 0, 0, 0>>}

Queued(c, adu) ==
    [conn |-> c, tid |-> adu.tid, proto |-> adu.proto, unit |-> adu.unit,
     fc |-> adu.fc, data |-> adu.data]

\* Run has connected the RTU client, started the worker and accepted the
\* connections; a panic of the worker ends the process and its handlers
QueueStart ==
    /\ wq = <<>>
    /\ wh = [c \in QueueConns |-> "reading"]
    /\ wreq = [c \in QueueConns |-> <<>>]
    /\ wgot = [c \in QueueConns |-> <<>>]
    /\ ww = "idle"
    /\ wcur = NoQueued

QueueInit == QueueStart /\ EarlyIdle /\ BootIdle /\ LockIdle

\* handleConnection from conn.Read to the receive on responseChan: what
\* Decode refuses is skipped; the send on requestChan blocks while it is full
ConnRequest(c, frame) ==
    /\ ww # "panic"
    /\ wh[c] = "reading"
    /\ LET adu == TcpDecode(frame) IN
         IF ~adu.ok
         THEN UNCHANGED <<wq, wh, wgot>>
         ELSE /\ Len(wq) < requestChanSize
              /\ wq' = Append(wq, Queued(c, adu))
              /\ wh' = [wh EXCEPT ![c] = "waiting"]
              /\ wgot' = [wgot EXCEPT ![c] = <<>>]
    /\ wreq' = [wreq EXCEPT ![c] = frame]
    /\ UNCHANGED <<ww, wcur, exceptQueue>>

\* conn.Read returns an error: the handler returns
ConnEof(c) ==
    /\ ww # "panic"
    /\ wh[c] = "reading"
    /\ wh' = [wh EXCEPT ![c] = "closed"]
    /\ UNCHANGED <<wq, wreq, wgot, ww, wcur, exceptQueue>>

\* the handler of a queued request receives a message on its response
\* channel and goes on to write the response or to log the error
WorkerReplies(req, response, err) ==
    /\ wh' = [wh EXCEPT ![req.conn] = "reading"]
    /\ wgot' = [wgot EXCEPT ![req.conn] = Append(@, [response |-> response, err |-> err])]

\* the exception response the worker builds when Send fails
GatewayTimeoutFrame(req) ==
    TcpEncode(req.tid, req.proto, 3, req.unit, Or8(req.fc, 128), <<11>>)

\* rtuWorker from the receive on requestChan into Send: a request that does
\* not encode is skipped; Send writes the frame and predicts the length of
\* the response; a write error comes back as the exception response
WorkerTake(writeOk) ==
    /\ ww = "idle"
    /\ wq # <<>>
    /\ wq' = Tail(wq)
    /\ LET req == Head(wq)
           rtuRawReq == RtuEncode(req.unit, req.fc, req.data)
       IN IF rtuRawReq = <<>>
          THEN UNCHANGED <<wh, wgot, ww, wcur>>
          ELSE IF ~writeOk
          THEN WorkerReplies(req, GatewayTimeoutFrame(req), FALSE) /\ UNCHANGED <<ww, wcur>>
          ELSE /\ ww' = IF CalculateResponseLength(rtuRawReq).panic THEN "panic" ELSE "sending"
               /\ wcur' = req
               /\ UNCHANGED <<wh, wgot>>
    /\ UNCHANGED <<wreq, exceptQueue>>

\* what Send comes back with: the slave's response, a frame that does not
\* decode, or (the empty sequence) a timeout
WorkerResponses(req) ==
    {RtuEncode(req.unit, req.fc, <<2, 0, 7>>), <<req.unit, req.fc, 2, 0, 7, 0, 0>>, <<>>}

\* the rest of the worker's turn: Send returns; the response, or the
\* exception 0x0B built for a failed Send, is encoded and sent on the
\* request's response channel; a response that does not encode is skipped
WorkerSendReturns(rtuRawResp) ==
    /\ ww = "sending"
    /\ LET rtuAduResp == RtuDecode(rtuRawResp)
           tcpRawResp == TcpEncode(wcur.tid, wcur.proto, Len(rtuAduResp.data) + 2, wcur.unit,
                                   rtuAduResp.fc, rtuAduResp.data)
       IN IF rtuRawResp = <<>> THEN WorkerReplies(wcur, GatewayTimeoutFrame(wcur), FALSE)
          ELSE IF ~rtuAduResp.ok THEN WorkerReplies(wcur, <<>>, TRUE)
          ELSE IF tcpRawResp = <<>> THEN UNCHANGED <<wh, wgot>>
          ELSE WorkerReplies(wcur, tcpRawResp, FALSE)
    /\ ww' = "idle"
    /\ wcur' = NoQueued
    /\ UNCHANGED <<wq, wreq, exceptQueue>>

QueueNext ==
    \/ \E c \in QueueConns, frame \in QueueFrames : ConnRequest(c, frame)
    \/ \E c \in QueueConns : ConnEof(c)
    \/ \E writeOk \in BOOLEAN : WorkerTake(writeOk)
    \/ \E rtuRawResp \in WorkerResponses(wcur) : WorkerSendReturns(rtuRawResp)

SpecQueue == QueueInit /\ [][QueueNext]_vars

\* the worker's receive on requestChan, as the queue shows it
WorkerReceives == ww = "idle" /\ wq # <<>> /\ wq' = Tail(wq)

\* the return of Send, as the worker's position shows it
SendEnds == ww = "sending" /\ ww' = "idle"

\* the worker goroutine is scheduled while a request is queued, and Send
\* returns (the reads of the serial port time out)
SpecQueueLive == SpecQueue /\ WF_wq(WorkerReceives) /\ WF_ww(SendEnds)

\* C40: every request a connection handler has placed on the request queue
\* is eventually answered by the worker with one message on the request's
\* response channel: no handler waits for its reply for ever.
C40_QueuedRequestAnswered ==
    \A c \in QueueConns : (wh[c] = "waiting") ~> (wh[c] = "reading" /\ Len(wgot[c]) = 1)

====
